---- MODULE Spec2Model ----
(***************************************************************************)
(* Focus Mode - Blocker: the background service worker as a state machine. *)
(*                                                                         *)
(* The persistent store (chrome.storage.local), the dynamic rule table     *)
(* (declarativeNetRequest), the alarm registrations (chrome.alarms) and    *)
(* the session flag (chrome.storage.session) are the state.  A message     *)
(* handler, alarm handler, command handler or lifecycle handler of         *)
(* src/background/service-worker.js is one action; a handler runs to       *)
(* completion at one instant `now` (milliseconds since the model's epoch). *)
(* GET_BLOCK_INFO, which changes nothing but the day of todayStats, and    *)
(* the badge and the notifications are left out.                           *)
(*                                                                         *)
(* Strings that the code takes apart (domains, URL filters, HH:MM times)   *)
(* are sequences of one-character strings.  JavaScript null is NULL for    *)
(* numbers and an isNull field for records.                                *)
(***************************************************************************)
EXTENDS Integers, Sequences, FiniteSets, TLC

VARIABLES
    now,                 \* Date.now(), ms
    timerState,          \* storage.local timerState
    settings,            \* storage.local settings: nuclearMode, schedule
    blocklist,           \* storage.local blocklist
    activePrebuiltLists, \* storage.local activePrebuiltLists
    todayStats,          \* storage.local todayStats
    sessionHistory,      \* storage.local sessionHistory
    sessionCount,        \* storage.local sessionCount
    streak,              \* storage.local streak
    rules,               \* declarativeNetRequest dynamic rules
    alarms,              \* chrome.alarms registrations
    focusActive,         \* storage.session focusActive (the session flag)
    lastOp,              \* the handler that ran last, with its input
    response,            \* what that handler returned
    inflight             \* handlers suspended at a storage call, with the
                         \* values they have read so far

vars == <<now, timerState, settings, blocklist, activePrebuiltLists, todayStats,
          sessionHistory, sessionCount, streak, rules, alarms, focusActive,
          lastOp, response, inflight>>

NULL == 0 - 1

-----------------------------------------------------------------------------
(* Bounds of the model *)

\* the clock stops at MaxMinutes minutes after the epoch
MaxMinutes == 2
\* focus sessions that may be started (each is recorded at most once)
MaxSessions == 1
\* distraction attempts that may be recorded
MaxAttempts == 1
\* focus sessions that may be started in the cycle-counting specification
MaxCycleSessions == 5
\* entries of a list handed to updateBlockingRules
MaxSyncLen == 3
\* www. prefixes in front of a host name handed to sanitizeDomain
MaxWww == 2

-----------------------------------------------------------------------------
(* Program constants *)

focusDuration == 25
shortBreakDuration == 5
longBreakDuration == 15
cyclesToLongBreak == 4
MAX_BLOCKLIST_SIZE == 500
OVERRIDE_MINUTES == 5

ALARM_TICK == "focus-tick"
ALARM_SCHEDULE_CHECK == "schedule-check"
ALARM_NUCLEAR_END == "nuclear-end"

ALLOWED_PREBUILT_LIST_IDS ==
    {"social-media", "news", "entertainment", "gaming", "shopping"}

MsPerMinute == 60 * 1000
MsPerDay == 24 * 60 * MsPerMinute

-----------------------------------------------------------------------------
(* Strings as sequences of characters *)

Str_www == <<"w", "w", "w", ".">>
Str_http == <<"h", "t", "t", "p", ":", "/", "/">>
Str_https == <<"h", "t", "t", "p", "s", ":", "/", "/">>
Str_bars == <<"|", "|">>

RedditCom == <<"r", "e", "d", "d", "i", "t", ".", "c", "o", "m">>
XCom == <<"x", ".", "c", "o", "m">>
ACom == <<"a", ".", "c", "o", "m">>

StartsWith(s, p) == Len(s) >= Len(p) /\ SubSeq(s, 1, Len(p)) = p

DropPrefix(s, n) == SubSeq(s, n + 1, Len(s))

\* s.replace(/^www\./, '')
StripWww(s) == IF StartsWith(s, Str_www) THEN DropPrefix(s, 4) ELSE s

\* s.indexOf(c) + 1: the index of the first occurrence of character c in s, or 0
IndexOf(s, c) ==
    IF \A i \in 1..Len(s) : s[i] # c THEN 0
    ELSE CHOOSE i \in 1..Len(s) : s[i] = c /\ \A j \in 1..(i - 1) : s[j] # c

\* s.split(c)[0]
BeforeFirst(s, c) ==
    LET i == IndexOf(s, c) IN IF i = 0 THEN s ELSE SubSeq(s, 1, i - 1)

\* s.replace(/\/.*$/, '')
StripPath(s) == BeforeFirst(s, "/")

\* d.replace(/^www\./, '').replace(/\/.*$/, '')
cleanDomain(d) == StripPath(StripWww(d))

\* the elements of seq at the indices in keep, in order
SubSeqAt(seq, keep) ==
    [k \in 1..Cardinality(keep) |->
        seq[CHOOSE i \in keep : Cardinality({j \in keep : j <= i}) = k]]

\* [...new Set(seq)]: the first occurrence of each element, in order
Dedup(seq) ==
    SubSeqAt(seq, {i \in 1..Len(seq) : \A j \in 1..(i - 1) : seq[j] # seq[i]})

Range(seq) == {seq[i] : i \in 1..Len(seq)}

Max(a, b) == IF a >= b THEN a ELSE b
Min(a, b) == IF a <= b THEN a ELSE b

-----------------------------------------------------------------------------
(* sanitizeDomain *)

UpperChars == <<"A", "B", "C", "D", "E", "F", "G", "H", "I", "J", "K", "L", "M",
                "N", "O", "P", "Q", "R", "S", "T", "U", "V", "W", "X", "Y", "Z">>
LowerChars == <<"a", "b", "c", "d", "e", "f", "g", "h", "i", "j", "k", "l", "m",
                "n", "o", "p", "q", "r", "s", "t", "u", "v", "w", "x", "y", "z">>
DigitChars == <<"0", "1", "2", "3", "4", "5", "6", "7", "8", "9">>

LowerChar(c) ==
    LET i == IndexOf(UpperChars, c) IN IF i = 0 THEN c ELSE LowerChars[i]

\* s.toLowerCase()
ToLowerCase(s) == [i \in 1..Len(s) |-> LowerChar(s[i])]

\* s.trim(): from the first to the last character that is not white space
Trim(s) ==
    LET solid == {i \in 1..Len(s) : s[i] # " "}
    IN IF solid = {} THEN << >>
       ELSE SubSeq(s, CHOOSE i \in solid : \A j \in solid : i <= j,
                      CHOOSE i \in solid : \A j \in solid : i >= j)

\* s.replace(/^https?:\/\//, '')
StripProtocol(s) ==
    IF StartsWith(s, Str_https) THEN DropPrefix(s, Len(Str_https))
    ELSE IF StartsWith(s, Str_http) THEN DropPrefix(s, Len(Str_http))
    ELSE s

\* s.split(c): the pieces between consecutive occurrences of c
Split(s, c) ==
    LET cuts == {0, Len(s) + 1} \cup {i \in 1..Len(s) : s[i] = c}
        next(i) == CHOOSE j \in cuts : j > i /\ \A k \in cuts : k > i => j <= k
        starts == SubSeqAt([i \in 1..(Len(s) + 1) |-> i - 1],
                           {i + 1 : i \in cuts \ {Len(s) + 1}})
    IN [k \in 1..Len(starts) |-> SubSeq(s, starts[k] + 1, next(starts[k]) - 1)]

IsAlnum(c) == IndexOf(LowerChars, c) # 0 \/ IndexOf(DigitChars, c) # 0

\* [a-z0-9]([a-z0-9-]*[a-z0-9])?
IsLabel(l) ==
    /\ l # << >>
    /\ IsAlnum(l[1])
    /\ IsAlnum(l[Len(l)])
    /\ \A i \in 1..Len(l) : IsAlnum(l[i]) \/ l[i] = "-"

\* DOMAIN_REGEX.test(s)
DOMAIN_REGEX(s) ==
    LET labels == Split(s, ".")
    IN Len(labels) >= 2 /\ \A i \in 1..Len(labels) : IsLabel(labels[i])

\* what sanitizeDomain makes of its input before validating it
sanitizeCleaned(input) ==
    BeforeFirst(
      BeforeFirst(BeforeFirst(BeforeFirst(
        StripWww(StripProtocol(ToLowerCase(Trim(input)))), "/"), "?"), "#"), ":")

\* sanitizeDomain(input): the cleaned domain, or << >> for null
sanitizeDomain(input) ==
    LET cleaned == sanitizeCleaned(input)
    IN IF input = << >> THEN << >>
       ELSE IF cleaned = << >> \/ Len(cleaned) > 253 \/ IndexOf(cleaned, ".") = 0
            THEN << >>
       ELSE IF ~DOMAIN_REGEX(cleaned) THEN << >>
       ELSE cleaned

-----------------------------------------------------------------------------
(* The clock: local wall-clock fields of Date(now) *)

\* the model's epoch is Monday 08:59 local time, with local time = UTC
EpochMinuteOfWeek == 1 * 24 * 60 + 8 * 60 + 59

MinuteOfWeek(t) == EpochMinuteOfWeek + (t \div MsPerMinute)

\* new Date(t).getDay()
getDay(t) == (MinuteOfWeek(t) \div (24 * 60)) % 7
\* new Date(t).getHours()
getHours(t) == (MinuteOfWeek(t) % (24 * 60)) \div 60
\* new Date(t).getMinutes()
getMinutes(t) == MinuteOfWeek(t) % 60
\* new Date(t).toISOString().split('T')[0], as a day number
isoDate(t) == MinuteOfWeek(t) \div (24 * 60)

\* String(n) for 0 <= n <= 99
NumToStr(n) ==
    IF n < 10 THEN <<DigitChars[n + 1]>>
    ELSE <<DigitChars[(n \div 10) + 1], DigitChars[(n % 10) + 1]>>

\* s.padStart(2, '0')
PadStart2(s) == IF Len(s) < 2 THEN <<"0">> \o s ELSE s

\* `${HH}:${MM}`
currentTime(t) ==
    PadStart2(NumToStr(getHours(t))) \o <<":">> \o PadStart2(NumToStr(getMinutes(t)))

\* UTF-16 code unit order of the characters a time string may hold
CharOrder == DigitChars \o <<":">>

CharCode(c) == IndexOf(CharOrder, c)

\* a <= b on JavaScript strings: at the first position where they differ a has
\* the smaller code unit, or a is a prefix of b
\* (x and y are bound to the values of a and b, each computed once)
StrLeq(a, b) ==
    \E x \in {a}, y \in {b} :
        LET n == Min(Len(x), Len(y))
            differ == {i \in 1..n : x[i] # y[i]}
        IN IF differ = {} THEN Len(x) <= Len(y)
           ELSE LET k == CHOOSE i \in differ : \A j \in differ : i <= j
                IN CharCode(x[k]) < CharCode(y[k])


-----------------------------------------------------------------------------
(* The state as one record, so that a handler is a function of it *)

World ==
    [now |-> now, timerState |-> timerState, settings |-> settings,
     blocklist |-> blocklist, activePrebuiltLists |-> activePrebuiltLists,
     todayStats |-> todayStats, sessionHistory |-> sessionHistory,
     sessionCount |-> sessionCount, streak |-> streak, rules |-> rules,
     alarms |-> alarms, focusActive |-> focusActive]

\* the store, the rules and the alarms become those of w; the clock stays
\* (v is bound to the value of w, computed once)
CommitStore(w) ==
    \E v \in {w} :
        /\ timerState' = v.timerState
        /\ settings' = v.settings
        /\ blocklist' = v.blocklist
        /\ activePrebuiltLists' = v.activePrebuiltLists
        /\ todayStats' = v.todayStats
        /\ sessionHistory' = v.sessionHistory
        /\ sessionCount' = v.sessionCount
        /\ streak' = v.streak
        /\ rules' = v.rules
        /\ alarms' = v.alarms
        /\ focusActive' = v.focusActive
        /\ now' = now

\* a handler that runs from start to end with no other in between leaves the
\* state w behind
Commit(w) ==
    /\ CommitStore(w)
    /\ inflight' = inflight

\* timerState: null
NullTimer ==
    [status |-> "null", remaining |-> 0, duration |-> 0, startedAt |-> NULL,
     cycle |-> 0]

\* settings.nuclearMode: null
NullNuclear == [isNull |-> TRUE, active |-> FALSE, endsAt |-> NULL]

\* { active: false, endsAt: null }
NuclearOff == [isNull |-> FALSE, active |-> FALSE, endsAt |-> NULL]

\* settings.schedule: null
NullSchedule ==
    [isNull |-> TRUE, enabled |-> FALSE, days |-> {}, startTime |-> << >>,
     endTime |-> << >>]

\* DEFAULTS.todayStats with a date
FreshStats(date) ==
    [date |-> date, focusMinutes |-> 0, sessionsCompleted |-> 0,
     totalAttempts |-> 0, sitesBlocked |-> << >>, focusScore |-> 0]

-----------------------------------------------------------------------------
(* src/shared/storage.js *)

\* the prebuilt groups getFullBlocklist fetches: lists[listId].sites.  The data
\* file is not among the sources; a sample with two groups stands for it.
blocklistsJson(listId) ==
    IF listId = "social-media" THEN <<XCom, RedditCom>>
    ELSE IF listId = "news" THEN <<ACom>>
    ELSE << >>

\* getTodayStats(): the store after the call; the result is its todayStats
getTodayStats(w) ==
    IF w.todayStats.date # isoDate(w.now)
    THEN [w EXCEPT !.todayStats = FreshStats(isoDate(w.now))]
    ELSE w

\* stats.sitesBlocked[domain] = (stats.sitesBlocked[domain] || 0) + 1
IncrSite(sitesBlocked, domain) ==
    IF domain \in DOMAIN sitesBlocked
    THEN [sitesBlocked EXCEPT ![domain] = @ + 1]
    ELSE [d \in (DOMAIN sitesBlocked) \cup {domain} |->
            IF d = domain THEN 1 ELSE sitesBlocked[d]]

\* recordDistraction(domain)
recordDistraction(w, domain) ==
    LET w1 == getTodayStats(w)
    IN [w1 EXCEPT !.todayStats.totalAttempts = @ + 1,
                  !.todayStats.sitesBlocked = IncrSite(@, domain)]

\* calculateFocusScore(stats, streak); Math.round is floor(x + 0.5)
calculateFocusScore(stats, strk) ==
    LET completionRate == IF stats.sessionsCompleted > 0 THEN 100 ELSE 0
        distractionScore == Max(0, 100 - (stats.totalAttempts * 2))
        goalRate == IF stats.sessionsCompleted > 0 THEN 100 ELSE 0
        streakBonus == Min(100, strk.current * 10)
        score == ((completionRate * 35) + (distractionScore * 25)
                  + (goalRate * 25) + (streakBonus * 15) + 50) \div 100
    IN Max(0, Min(100, score))

\* history.filter(s => new Date(s.date) >= sevenDaysAgo)
SelectSince(history, since) ==
    SubSeqAt(history, {i \in 1..Len(history) : history[i].date >= since})

\* the streak after a session recorded on day today
updateStreak(strk, session, today) ==
    IF session.completed /\ strk.lastActiveDate # today
    THEN [current |->
            IF strk.lastActiveDate = today - 1 \/ strk.current = 0
            THEN strk.current + 1
            ELSE 1,
          lastActiveDate |-> today]
    ELSE strk

\* recordSession(session), session = [duration, focusMinutes, completed]
recordSession(w, session) ==
    LET w1 == getTodayStats(w)
        stats == IF session.completed
                 THEN [w1.todayStats EXCEPT
                         !.sessionsCompleted = @ + 1,
                         !.focusMinutes = @ + session.focusMinutes]
                 ELSE w1.todayStats
        record == [date |-> w.now, duration |-> session.duration,
                   focusMinutes |-> session.focusMinutes,
                   completed |-> session.completed,
                   attemptsBlocked |-> stats.totalAttempts]
        prunedHistory == SelectSince(Append(w1.sessionHistory, record),
                                     w.now - 7 * MsPerDay)
        updatedStreak == updateStreak(w1.streak, session, isoDate(w.now))
    IN [w1 EXCEPT
          !.todayStats = [stats EXCEPT
                            !.focusScore = calculateFocusScore(stats, updatedStreak)],
          !.sessionHistory = prunedHistory,
          !.sessionCount = @ + 1,
          !.streak = updatedStreak]

\* the concatenation of the sequences of seqs, in order
Flatten(seqs) ==
    LET P == UNION {{<<i, j>> : j \in 1..Len(seqs[i])} : i \in 1..Len(seqs)}
        before(p, q) == p[1] < q[1] \/ (p[1] = q[1] /\ p[2] <= q[2])
        at(k) == CHOOSE p \in P : Cardinality({q \in P : before(q, p)}) = k
    IN [k \in 1..Cardinality(P) |-> seqs[at(k)[1]][at(k)[2]]]

\* the sites of the active prebuilt lists, in order
PrebuiltSites(listIds) ==
    Flatten([i \in 1..Len(listIds) |-> blocklistsJson(listIds[i])])

\* getFullBlocklist(): manual entries, then the active prebuilt lists, deduplicated
getFullBlocklist(w) == Dedup(w.blocklist \o PrebuiltSites(w.activePrebuiltLists))


-----------------------------------------------------------------------------
(* src/background/service-worker.js: helpers *)

\* chrome.alarms: the registrations.  A periodic alarm (focus-tick,
\* schedule-check) is registered or not and may fire whenever it is; a one-shot
\* alarm (nuclear-end, override-<domain>) has its scheduled time, or NULL.
\* Creating an alarm replaces the one of the same name.
NoAlarms == [tick |-> FALSE, scheduleCheck |-> FALSE, nuclearEnd |-> NULL,
             override |-> {}]

\* chrome.alarms.create('override-' + cleanDomain, { delayInMinutes })
createOverrideAlarm(a, domain, when) ==
    [a EXCEPT !.override =
        {o \in @ : o.domain # domain} \cup {[domain |-> domain, when |-> when]}]

\* ensureAlarm(ALARM_SCHEDULE_CHECK, { periodInMinutes: 1 })
ensureScheduleAlarm(w) ==
    IF w.alarms.scheduleCheck THEN w
    ELSE [w EXCEPT !.alarms.scheduleCheck = TRUE]

\* setSessionFlag(active)
setSessionFlag(w, active) == [w EXCEPT !.focusActive = active]

\* the rule updateBlockingRules builds for the i-th domain
blockingRule(i, domain) ==
    [id |-> i, urlFilter |-> Str_bars \o cleanDomain(domain)]

\* updateBlockingRules(domains) were the installed rules not removed first
updateBlockingRulesAppend(w, domains) ==
    [w EXCEPT !.rules =
        @ \cup {blockingRule(i, domains[i]) : i \in 1..Len(domains)}]

\* updateBlockingRules(domains): every rule removed, one rule per list entry
updateBlockingRules(w, domains) ==
    [w EXCEPT !.rules = {blockingRule(i, domains[i]) : i \in 1..Len(domains)}]

\* clearBlockingRules()
clearBlockingRules(w) == [w EXCEPT !.rules = {}]

\* settings.nuclearMode && settings.nuclearMode.active
\*   && Date.now() < settings.nuclearMode.endsAt
nuclearUnexpired(w) ==
    /\ ~w.settings.nuclearMode.isNull
    /\ w.settings.nuclearMode.active
    /\ w.now < w.settings.nuclearMode.endsAt

\* isNuclearActive(): what it returns
isNuclearActive(w) ==
    IF w.settings.nuclearMode.isNull \/ ~w.settings.nuclearMode.active THEN FALSE
    ELSE IF w.now >= w.settings.nuclearMode.endsAt THEN FALSE
    ELSE TRUE

\* isNuclearActive() were it to leave an expired lock in the store
afterIsNuclearActiveNoWrite(w) == w

\* isNuclearActive(): the store after the call (lazy expiry)
afterIsNuclearActive(w) ==
    IF w.settings.nuclearMode.isNull \/ ~w.settings.nuclearMode.active THEN w
    ELSE IF w.now >= w.settings.nuclearMode.endsAt
         THEN [w EXCEPT !.settings.nuclearMode = NuclearOff]
    ELSE w

\* isScheduleActive() were the end of the window not part of it
isScheduleActiveEndExcluded(w) ==
    LET schedule == w.settings.schedule
    IN IF schedule.isNull \/ ~schedule.enabled THEN FALSE
       ELSE IF getDay(w.now) \notin schedule.days THEN FALSE
       ELSE /\ StrLeq(schedule.startTime, currentTime(w.now))
            /\ StrLeq(currentTime(w.now), schedule.endTime)
            /\ currentTime(w.now) # schedule.endTime

\* isScheduleActive()
isScheduleActive(w) ==
    \E schedule \in {w.settings.schedule}, t \in {w.now} :
        IF schedule.isNull \/ ~schedule.enabled THEN FALSE
        ELSE IF getDay(t) \notin schedule.days THEN FALSE
        ELSE /\ StrLeq(schedule.startTime, currentTime(t))
             /\ StrLeq(currentTime(t), schedule.endTime)

\* timerState && timerState.status === 'focus'
inFocus(w) == w.timerState.status = "focus"

\* !timerState || timerState.status === 'idle'
noTimer(w) == w.timerState.status = "null" \/ w.timerState.status = "idle"

\* Math.floor((Date.now() - timerState.startedAt) / 1000); a startedAt that is
\* set is a real timestamp, never JavaScript's falsy 0
elapsedSeconds(w, ts) == (w.now - ts.startedAt) \div 1000

-----------------------------------------------------------------------------
(* Focus timer *)

\* startFocusSession(durationMinutes)
startFocusSessionFor(w, duration) ==
    LET cycle == IF w.timerState.status # "null" /\ w.timerState.cycle # 0
                 THEN w.timerState.cycle ELSE 1
        w1 == [w EXCEPT !.timerState =
                 [status |-> "focus", remaining |-> duration,
                  duration |-> duration, startedAt |-> w.now, cycle |-> cycle]]
        w2 == setSessionFlag(w1, TRUE)
        w3 == updateBlockingRules(w2, getFullBlocklist(w2))
    IN [w3 EXCEPT !.alarms.tick = TRUE]

\* startFocusSession(durationMinutes), a whole number of minutes
startFocusSession(w, durationMinutes) ==
    startFocusSessionFor(w, (IF durationMinutes = 0 THEN focusDuration
                             ELSE durationMinutes) * 60)

\* stopSession() were it to skip the nuclear check
stopSessionUnguarded(w) ==
    LET w1 == IF inFocus(w)
              THEN recordSession(w,
                     [duration |-> w.timerState.duration,
                      focusMinutes |-> elapsedSeconds(w, w.timerState) \div 60,
                      completed |-> FALSE])
              ELSE w
        w2 == [w1 EXCEPT !.timerState = NullTimer, !.alarms.tick = FALSE]
    IN IF ~isScheduleActive(w2)
       THEN setSessionFlag(clearBlockingRules(w2), FALSE)
       ELSE w2

\* stopSession() were the elapsed minutes rounded to the nearest
stopSessionRounded(w) ==
    IF nuclearUnexpired(w) THEN w
    ELSE LET w1 == IF inFocus(w)
                   THEN recordSession(w,
                          [duration |-> w.timerState.duration,
                           focusMinutes |->
                               (elapsedSeconds(w, w.timerState) + 30) \div 60,
                           completed |-> FALSE])
                   ELSE w
             w2 == [w1 EXCEPT !.timerState = NullTimer, !.alarms.tick = FALSE]
         IN IF ~isScheduleActive(w2)
            THEN setSessionFlag(clearBlockingRules(w2), FALSE)
            ELSE w2

\* stopSession(): the store after the call
stopSession(w) ==
    IF nuclearUnexpired(w) THEN w
    ELSE LET w1 == IF inFocus(w)
                   THEN recordSession(w,
                          [duration |-> w.timerState.duration,
                           focusMinutes |-> elapsedSeconds(w, w.timerState) \div 60,
                           completed |-> FALSE])
                   ELSE w
             w2 == [w1 EXCEPT !.timerState = NullTimer, !.alarms.tick = FALSE]
         IN IF ~isScheduleActive(w2)
            THEN setSessionFlag(clearBlockingRules(w2), FALSE)
            ELSE w2

\* stopSession(): what it returns
stopSessionResult(w) ==
    IF nuclearUnexpired(w)
    THEN [kind |-> "error", error |-> "Cannot stop session during nuclear mode."]
    ELSE [kind |-> "success", error |-> ""]

\* startBreak(isLong) were it to move on to the next cycle
startBreakNextCycle(w, isLong) ==
    LET breakDuration == (IF isLong THEN longBreakDuration
                          ELSE shortBreakDuration) * 60
        cycle == IF w.timerState.status # "null" THEN w.timerState.cycle + 1 ELSE 1
        w1 == [w EXCEPT !.timerState =
                 [status |-> IF isLong THEN "longbreak" ELSE "break",
                  remaining |-> breakDuration, duration |-> breakDuration,
                  startedAt |-> w.now, cycle |-> cycle]]
        w2 == IF ~isScheduleActive(w1) THEN clearBlockingRules(w1) ELSE w1
    IN [w2 EXCEPT !.alarms.tick = TRUE]

\* startBreak(isLong)
startBreak(w, isLong) ==
    LET breakDuration == (IF isLong THEN longBreakDuration
                          ELSE shortBreakDuration) * 60
        cycle == IF w.timerState.status # "null" THEN w.timerState.cycle ELSE 1
        w1 == [w EXCEPT !.timerState =
                 [status |-> IF isLong THEN "longbreak" ELSE "break",
                  remaining |-> breakDuration, duration |-> breakDuration,
                  startedAt |-> w.now, cycle |-> cycle]]
        w2 == IF ~isScheduleActive(w1) THEN clearBlockingRules(w1) ELSE w1
    IN [w2 EXCEPT !.alarms.tick = TRUE]

\* the break state were the cycle never reset after a long break
breakStateNoReset(w, ts) ==
    LET isLongBreak == ts.cycle >= cyclesToLongBreak
        breakDuration == (IF isLongBreak THEN longBreakDuration
                          ELSE shortBreakDuration) * 60
    IN [status |-> IF isLongBreak THEN "longbreak" ELSE "break",
        remaining |-> breakDuration, duration |-> breakDuration,
        startedAt |-> w.now,
        cycle |-> ts.cycle + 1]

\* the break state onFocusComplete moves to
breakState(w, ts) ==
    LET isLongBreak == ts.cycle >= cyclesToLongBreak
        breakDuration == (IF isLongBreak THEN longBreakDuration
                          ELSE shortBreakDuration) * 60
    IN [status |-> IF isLongBreak THEN "longbreak" ELSE "break",
        remaining |-> breakDuration, duration |-> breakDuration,
        startedAt |-> w.now,
        cycle |-> IF isLongBreak THEN 1 ELSE ts.cycle + 1]

\* onFocusComplete(timerState) were the tick alarm not created again
onFocusCompleteNoAlarm(w, ts) ==
    LET w1 == recordSession(getTodayStats(w),
                [duration |-> ts.duration,
                 focusMinutes |-> ts.duration \div 60,
                 completed |-> TRUE])
        w2 == [w1 EXCEPT !.timerState = breakState(w, ts)]
    IN IF ~nuclearUnexpired(w2) /\ ~isScheduleActive(w2)
       THEN clearBlockingRules(w2) ELSE w2

\* onFocusComplete(timerState)
onFocusComplete(w, ts) ==
    LET w1 == recordSession(getTodayStats(w),
                [duration |-> ts.duration,
                 focusMinutes |-> ts.duration \div 60,
                 completed |-> TRUE])
        w2 == [w1 EXCEPT !.timerState = breakState(w, ts)]
        w3 == IF ~nuclearUnexpired(w2) /\ ~isScheduleActive(w2)
              THEN clearBlockingRules(w2) ELSE w2
    IN [w3 EXCEPT !.alarms.tick = TRUE]

\* onBreakComplete(timerState) were the session flag always turned off
onBreakCompleteFlagOff(w, ts) ==
    LET w1 == [w EXCEPT !.timerState =
                 [status |-> "idle", remaining |-> 0, duration |-> 0,
                  startedAt |-> NULL, cycle |-> ts.cycle]]
    IN setSessionFlag(afterIsNuclearActive(w1), FALSE)

\* onBreakComplete(timerState)
onBreakComplete(w, ts) ==
    LET w1 == [w EXCEPT !.timerState =
                 [status |-> "idle", remaining |-> 0, duration |-> 0,
                  startedAt |-> NULL, cycle |-> ts.cycle]]
        w2 == afterIsNuclearActive(w1)
    IN IF ~isScheduleActive(w1) /\ ~isNuclearActive(w1)
       THEN setSessionFlag(w2, FALSE)
       ELSE w2

\* onAlarmTick() were the timer to complete only after its last second
onAlarmTickLate(w) ==
    IF noTimer(w) THEN [w EXCEPT !.alarms.tick = FALSE]
    ELSE LET elapsed == elapsedSeconds(w, w.timerState)
             remaining == Max(0, w.timerState.duration - elapsed)
             ts == [w.timerState EXCEPT !.remaining = remaining]
         IN IF elapsed > w.timerState.duration
            THEN LET w1 == [w EXCEPT !.alarms.tick = FALSE]
                 IN IF ts.status = "focus" THEN onFocusComplete(w1, ts)
                    ELSE onBreakComplete(w1, ts)
            ELSE [w EXCEPT !.timerState = ts]

\* onAlarmTick()
onAlarmTick(w) ==
    IF noTimer(w) THEN [w EXCEPT !.alarms.tick = FALSE]
    ELSE LET remaining == Max(0, w.timerState.duration
                                   - elapsedSeconds(w, w.timerState))
             ts == [w.timerState EXCEPT !.remaining = remaining]
         IN IF remaining <= 0
            THEN LET w1 == [w EXCEPT !.alarms.tick = FALSE]
                 IN IF ts.status = "focus" THEN onFocusComplete(w1, ts)
                    ELSE onBreakComplete(w1, ts)
            ELSE [w EXCEPT !.timerState = ts]


-----------------------------------------------------------------------------
(* Nuclear mode *)

\* activateNuclear(durationMinutes)
activateNuclearFor(w, durationMs) ==
    LET endsAt == w.now + durationMs
        w1 == [w EXCEPT !.settings.nuclearMode =
                 [isNull |-> FALSE, active |-> TRUE, endsAt |-> endsAt]]
        w2 == updateBlockingRules(w1, getFullBlocklist(w1))
        w3 == setSessionFlag(w2, TRUE)
    IN [w3 EXCEPT !.alarms.nuclearEnd = w.now + durationMs]

\* activateNuclear(durationMinutes), a whole number of minutes
activateNuclear(w, durationMinutes) ==
    activateNuclearFor(w, durationMinutes * MsPerMinute)

\* onNuclearEnd()
onNuclearEnd(w) ==
    LET w1 == [w EXCEPT !.settings.nuclearMode = NuclearOff]
    IN IF inFocus(w1) THEN w1
       ELSE IF w1.timerState.status = "break" \/ w1.timerState.status = "longbreak"
            THEN w1
       ELSE IF ~isScheduleActive(w1)
            THEN setSessionFlag(clearBlockingRules(w1), FALSE)
       ELSE w1

-----------------------------------------------------------------------------
(* Schedule checking *)

\* checkSchedule() were it never to clear the rules
checkScheduleNoClear(w) ==
    LET active == isScheduleActive(w)
        w1 == afterIsNuclearActive(w)
    IN IF isNuclearActive(w) THEN w1
       ELSE IF active /\ noTimer(w)
            THEN setSessionFlag(updateBlockingRules(w1, getFullBlocklist(w1)), TRUE)
       ELSE w1

\* checkSchedule()
checkSchedule(w) ==
    LET active == isScheduleActive(w)
        w1 == afterIsNuclearActive(w)
    IN IF isNuclearActive(w) THEN w1
       ELSE IF active /\ noTimer(w)
            THEN setSessionFlag(updateBlockingRules(w1, getFullBlocklist(w1)), TRUE)
       ELSE IF ~active /\ noTimer(w)
            THEN setSessionFlag(clearBlockingRules(w1), FALSE)
       ELSE w1

\* handleUpdateSchedule(schedule) were the schedule only stored
handleUpdateScheduleStoreOnly(w, schedule) ==
    [w EXCEPT !.settings.schedule = schedule]

\* handleUpdateSchedule(schedule)
handleUpdateSchedule(w, schedule) ==
    checkSchedule([w EXCEPT !.settings.schedule = schedule])

-----------------------------------------------------------------------------
(* Blocklist *)

\* the loop of handleUpdateBlocklist: the sanitized entries, without duplicates
sanitizeAll(sites) == Dedup([i \in 1..Len(sites) |-> sanitizeDomain(sites[i])])

\* the refusals were the nuclear lock not consulted
blocklistRefusalNoLock(w, sites) ==
    IF Len(sites) > MAX_BLOCKLIST_SIZE THEN "Blocklist cannot exceed 500 sites."
    ELSE IF \E i \in 1..Len(sites) : sanitizeDomain(sites[i]) = << >>
         THEN "Invalid domain"
    ELSE ""

\* the request is refused before anything is written
blocklistRefusal(w, sites) ==
    IF isNuclearActive(w) THEN "Cannot modify blocklist during nuclear mode."
    ELSE IF Len(sites) > MAX_BLOCKLIST_SIZE THEN "Blocklist cannot exceed 500 sites."
    ELSE IF \E i \in 1..Len(sites) : sanitizeDomain(sites[i]) = << >>
         THEN "Invalid domain"
    ELSE ""

\* the resync condition were the schedule not consulted
listChangeResyncsFocusOnly(w) == inFocus(w)

\* (timerState && timerState.status === 'focus') || scheduleActive
listChangeResyncs(w) == inFocus(w) \/ isScheduleActive(w)

\* handleUpdateBlocklist(sites): the store after the call
handleUpdateBlocklist(w, sites) ==
    LET w1 == afterIsNuclearActive(w)
    IN IF blocklistRefusal(w, sites) # "" THEN w1
       ELSE LET w2 == [w1 EXCEPT !.blocklist = sanitizeAll(sites)]
            IN IF listChangeResyncs(w2)
               THEN updateBlockingRules(w2, getFullBlocklist(w2))
               ELSE w2

\* activePrebuiltLists with listId removed if present, appended if not
toggled(lists, listId) ==
    IF listId \in Range(lists) THEN SelectSeq(lists, LAMBDA id : id # listId)
    ELSE Append(lists, listId)

\* handleTogglePrebuiltList(listId): the store after the call
handleTogglePrebuiltList(w, listId) ==
    LET w1 == afterIsNuclearActive(w)
    IN IF isNuclearActive(w) THEN w1
       ELSE LET w2 == [w1 EXCEPT !.activePrebuiltLists = toggled(@, listId)]
            IN IF listChangeResyncs(w2)
               THEN updateBlockingRules(w2, getFullBlocklist(w2))
               ELSE w2

-----------------------------------------------------------------------------
(* Block decision *)

\* membership were the two sides compared as given
inBlocklistExact(w, domain) ==
    LET domains == getFullBlocklist(w)
    IN \E i \in 1..Len(domains) : domains[i] = domain

\* domains.some(d => clean(d) === cleanDomain)
inBlocklist(w, domain) ==
    LET domains == getFullBlocklist(w)
        clean == cleanDomain(domain)
    IN \E i \in 1..Len(domains) : cleanDomain(domains[i]) = clean

\* the decision were the focus session consulted before the schedule
handleCheckBlockedResultFocusFirst(w, domain) ==
    IF ~inBlocklist(w, domain) THEN [blocked |-> FALSE, reason |-> ""]
    ELSE IF isNuclearActive(w) THEN [blocked |-> TRUE, reason |-> "nuclear"]
    ELSE IF inFocus(w) THEN [blocked |-> TRUE, reason |-> "blocklist"]
    ELSE IF isScheduleActive(w) THEN [blocked |-> TRUE, reason |-> "schedule"]
    ELSE [blocked |-> FALSE, reason |-> ""]

\* the decision were the focus session not consulted at all
handleCheckBlockedResultNoFocus(w, domain) ==
    IF ~inBlocklist(w, domain) THEN [blocked |-> FALSE, reason |-> ""]
    ELSE IF isNuclearActive(w) THEN [blocked |-> TRUE, reason |-> "nuclear"]
    ELSE IF isScheduleActive(w) THEN [blocked |-> TRUE, reason |-> "schedule"]
    ELSE [blocked |-> FALSE, reason |-> ""]

\* handleCheckBlocked(payload): what it returns
handleCheckBlockedResult(w, domain) ==
    IF ~inBlocklist(w, domain) THEN [blocked |-> FALSE, reason |-> ""]
    ELSE IF isNuclearActive(w) THEN [blocked |-> TRUE, reason |-> "nuclear"]
    ELSE IF isScheduleActive(w) THEN [blocked |-> TRUE, reason |-> "schedule"]
    ELSE IF inFocus(w) THEN [blocked |-> TRUE, reason |-> "blocklist"]
    ELSE [blocked |-> FALSE, reason |-> ""]

\* handleCheckBlocked(payload) were it to count the visit as a distraction
handleCheckBlockedCounting(w, domain) ==
    IF ~inBlocklist(w, domain) THEN w
    ELSE recordDistraction(afterIsNuclearActive(w), domain)

\* handleCheckBlocked(payload): the store after the call
handleCheckBlocked(w, domain) ==
    IF ~inBlocklist(w, domain) THEN w ELSE afterIsNuclearActive(w)

-----------------------------------------------------------------------------
(* Override *)

\* handleOverrideBlock(domain) were it to skip the nuclear check
handleOverrideBlockUnguarded(w, domain) ==
    LET w2 == recordDistraction(w, domain)
        filter == Str_bars \o cleanDomain(domain)
    IN [w2 EXCEPT
          !.rules = {r \in @ : r.urlFilter # filter},
          !.alarms = createOverrideAlarm(@, cleanDomain(domain),
                         w.now + OVERRIDE_MINUTES * MsPerMinute)]

\* handleOverrideBlock(domain): the store after the call
handleOverrideBlock(w, domain) ==
    LET w1 == afterIsNuclearActive(w)
    IN IF isNuclearActive(w) THEN w1
       ELSE LET w2 == recordDistraction(w1, domain)
                filter == Str_bars \o cleanDomain(domain)
            IN [w2 EXCEPT
                  !.rules = {r \in @ : r.urlFilter # filter},
                  !.alarms = createOverrideAlarm(@, cleanDomain(domain),
                                 w.now + OVERRIDE_MINUTES * MsPerMinute)]

\* onOverrideExpiry(domain) were the rules synced whatever is active
onOverrideExpiryAlways(w, domain) ==
    LET w1 == afterIsNuclearActive(w)
    IN updateBlockingRules(w1, getFullBlocklist(w1))

\* onOverrideExpiry(domain)
onOverrideExpiry(w, domain) ==
    LET w1 == afterIsNuclearActive(w)
    IN IF isNuclearActive(w) \/ isScheduleActive(w) \/ inFocus(w)
       THEN updateBlockingRules(w1, getFullBlocklist(w1))
       ELSE w1

-----------------------------------------------------------------------------
(* Install and startup *)

\* restoreState() were the rule table not synced again under the nuclear lock
restoreStateNoResync(w) ==
    LET ts == w.timerState
        w1 == afterIsNuclearActive(w)
    IN IF isNuclearActive(w)
       THEN LET remainingMs == w1.settings.nuclearMode.endsAt - w.now
            IN IF remainingMs > 0
               THEN [setSessionFlag(w1, TRUE)
                     EXCEPT !.alarms.nuclearEnd = w.now + remainingMs]
               ELSE onNuclearEnd(w1)
       ELSE IF ts.status # "null" /\ ts.startedAt # NULL /\ ts.status # "idle"
            THEN LET remaining == ts.duration - elapsedSeconds(w, ts)
                 IN IF remaining <= 0
                    THEN IF ts.status = "focus" THEN onFocusComplete(w1, ts)
                         ELSE onBreakComplete(w1, ts)
                    ELSE LET w2 == [w1 EXCEPT !.timerState.remaining = remaining]
                             w3 == IF ts.status = "focus"
                                   THEN setSessionFlag(
                                          updateBlockingRules(w2, getFullBlocklist(w2)),
                                          TRUE)
                                   ELSE w2
                         IN [w3 EXCEPT !.alarms.tick = TRUE]
       ELSE checkSchedule(w1)

\* restoreState()
restoreState(w) ==
    LET ts == w.timerState
        w1 == afterIsNuclearActive(w)
    IN IF isNuclearActive(w)
       THEN LET remainingMs == w1.settings.nuclearMode.endsAt - w.now
            IN IF remainingMs > 0
               THEN [setSessionFlag(
                       updateBlockingRules(w1, getFullBlocklist(w1)), TRUE)
                     EXCEPT !.alarms.nuclearEnd = w.now + remainingMs]
               ELSE onNuclearEnd(w1)
       ELSE IF ts.status # "null" /\ ts.startedAt # NULL /\ ts.status # "idle"
            THEN LET remaining == ts.duration - elapsedSeconds(w, ts)
                 IN IF remaining <= 0
                    THEN IF ts.status = "focus" THEN onFocusComplete(w1, ts)
                         ELSE onBreakComplete(w1, ts)
                    ELSE LET w2 == [w1 EXCEPT !.timerState.remaining = remaining]
                             w3 == IF ts.status = "focus"
                                   THEN setSessionFlag(
                                          updateBlockingRules(w2, getFullBlocklist(w2)),
                                          TRUE)
                                   ELSE w2
                         IN [w3 EXCEPT !.alarms.tick = TRUE]
       ELSE checkSchedule(w1)


-----------------------------------------------------------------------------
(* Responses *)

\* what a handler with no return value leaves behind
NoResponse ==
    [kind |-> "none", error |-> "", blocked |-> FALSE, reason |-> "",
     nuclearActive |-> FALSE, timerState |-> NullTimer,
     nuclearMode |-> NullNuclear]

\* { success: true }
Success == [NoResponse EXCEPT !.kind = "success"]

\* { error: msg }
Failure(msg) == [NoResponse EXCEPT !.kind = "error", !.error = msg]

\* { blocked, reason }
Decision(r) ==
    [NoResponse EXCEPT !.kind = "decision", !.blocked = r.blocked,
                       !.reason = r.reason]

\* the timer as stored, cached remaining included
adjustedTimerCached(w) == w.timerState

\* the time-adjusted timer of getFullState and getBlockInfo
adjustedTimer(w) ==
    IF w.timerState.status # "null" /\ w.timerState.startedAt # NULL
       /\ w.timerState.status # "idle"
    THEN [w.timerState EXCEPT
            !.remaining = Max(0, w.timerState.duration
                                   - elapsedSeconds(w, w.timerState))]
    ELSE w.timerState

\* getFullState(): what it returns (its timerState, settings.nuclearMode and
\* nuclearActive fields; settings is read before isNuclearActive runs)
getFullStateResult(w) ==
    [NoResponse EXCEPT !.kind = "state",
                       !.timerState = adjustedTimer(w),
                       !.nuclearMode = w.settings.nuclearMode,
                       !.nuclearActive = isNuclearActive(w)]

\* getFullState(): the store after the call
getFullState(w) == afterIsNuclearActive(getTodayStats(w))

\* getBlockInfo(domain): what it returns (its timerState and
\* settings.nuclearMode fields)
getBlockInfoResult(w, domain) ==
    [NoResponse EXCEPT !.kind = "blockInfo",
                       !.timerState = adjustedTimer(w),
                       !.nuclearMode = w.settings.nuclearMode]

\* getBlockInfo(domain): the store after the call
getBlockInfo(w, domain) == getTodayStats(w)

-----------------------------------------------------------------------------
(* handleMessage *)

\* A message as handleMessage sees it.  isObject and hasType say whether it
\* is an object and carries a string type.  duration is the value of
\* message.duration: absent (undefined or null), not a number, or a number
\* of half minutes (halves = 1 is 0.5).  listId "" and domain << >> stand for
\* a value that is missing or not a string; payloadOk and scheduleOk say
\* whether payload is an object with a string domain and whether schedule is
\* null or an object.
NoDuration == [kind |-> "absent", halves |-> 0]
NotANumber == [kind |-> "nan", halves |-> 0]
Minutes(m) == [kind |-> "number", halves |-> 2 * m]
HalfMinutes(h) == [kind |-> "number", halves |-> h]

Message(type) ==
    [isObject |-> TRUE, hasType |-> TRUE, type |-> type,
     duration |-> NoDuration, sites |-> << >>, listId |-> "",
     payloadOk |-> FALSE, domain |-> << >>, isLong |-> FALSE,
     scheduleOk |-> TRUE, schedule |-> NullSchedule]

\* !Number.isFinite(dur) || dur <= 0 || dur > max
durationOutOfRange(duration, max) ==
    \/ duration.kind # "number"
    \/ duration.halves <= 0
    \/ duration.halves > 2 * max

\* START_SESSION and SKIP_BREAK: message.duration != null && (...)
sessionDurationRejected(duration) ==
    duration.kind # "absent" /\ durationOutOfRange(duration, 480)

\* (dur || DEFAULTS_TIMER.focusDuration) * 60
sessionSeconds(duration) ==
    IF duration.kind = "absent" THEN focusDuration * 60
    ELSE duration.halves * 30

\* the domain handed to getBlockInfo
blockInfoDomain(domain) ==
    IF sanitizeDomain(domain) # << >> THEN sanitizeDomain(domain) ELSE domain

\* handleMessage(message, sender): what it returns
handleMessageResult(w, message) ==
    IF ~message.isObject \/ ~message.hasType
    THEN Failure("Invalid message format.")
    ELSE IF message.type = "START_SESSION"
    THEN IF sessionDurationRejected(message.duration)
         THEN Failure("Invalid duration. Must be 1-480 minutes.")
         ELSE Success
    ELSE IF message.type = "STOP_SESSION"
    THEN IF stopSessionResult(w).kind = "error"
         THEN Failure(stopSessionResult(w).error) ELSE Success
    ELSE IF message.type = "GET_STATE" THEN getFullStateResult(w)
    ELSE IF message.type = "UPDATE_BLOCKLIST"
    THEN IF blocklistRefusal(w, message.sites) # ""
         THEN Failure(blocklistRefusal(w, message.sites)) ELSE Success
    ELSE IF message.type = "TOGGLE_PREBUILT_LIST"
    THEN IF message.listId \notin ALLOWED_PREBUILT_LIST_IDS
         THEN Failure("Invalid list ID.")
         ELSE IF isNuclearActive(w)
         THEN Failure("Cannot modify lists during nuclear mode.")
         ELSE Success
    ELSE IF message.type = "ACTIVATE_NUCLEAR"
    THEN IF durationOutOfRange(message.duration, 1440)
         THEN Failure("Invalid nuclear duration. Must be 1-1440 minutes.")
         ELSE Success
    ELSE IF message.type = "CHECK_BLOCKED"
    THEN IF ~message.payloadOk
         THEN Decision([blocked |-> FALSE, reason |-> ""])
         ELSE Decision(handleCheckBlockedResult(w, message.domain))
    ELSE IF message.type = "GET_BLOCK_INFO"
    THEN IF message.domain = << >> THEN Failure("Invalid domain.")
         ELSE getBlockInfoResult(w, blockInfoDomain(message.domain))
    ELSE IF message.type = "RECORD_DISTRACTION"
    THEN IF message.domain = << >> THEN Failure("Invalid domain.")
         ELSE Success
    ELSE IF message.type = "START_BREAK" THEN Success
    ELSE IF message.type = "SKIP_BREAK"
    THEN IF sessionDurationRejected(message.duration)
         THEN Failure("Invalid duration.")
         ELSE Success
    ELSE IF message.type = "OVERRIDE_BLOCK"
    THEN IF message.domain = << >> THEN Failure("Invalid domain.")
         ELSE IF isNuclearActive(w)
         THEN Failure("Cannot override blocks during nuclear mode.")
         ELSE Success
    ELSE IF message.type = "UPDATE_SCHEDULE"
    THEN IF ~message.scheduleOk THEN Failure("Invalid schedule format.")
         ELSE Success
    ELSE Failure("Unknown message type.")

\* handleMessage(message, sender): the store after the call
handleMessage(w, message) ==
    IF ~message.isObject \/ ~message.hasType THEN w
    ELSE IF message.type = "START_SESSION" \/ message.type = "SKIP_BREAK"
    THEN IF sessionDurationRejected(message.duration) THEN w
         ELSE startFocusSessionFor(w, sessionSeconds(message.duration))
    ELSE IF message.type = "STOP_SESSION" THEN stopSession(w)
    ELSE IF message.type = "GET_STATE" THEN getFullState(w)
    ELSE IF message.type = "UPDATE_BLOCKLIST"
    THEN handleUpdateBlocklist(w, message.sites)
    ELSE IF message.type = "TOGGLE_PREBUILT_LIST"
    THEN IF message.listId \notin ALLOWED_PREBUILT_LIST_IDS THEN w
         ELSE handleTogglePrebuiltList(w, message.listId)
    ELSE IF message.type = "ACTIVATE_NUCLEAR"
    THEN IF durationOutOfRange(message.duration, 1440) THEN w
         ELSE activateNuclearFor(w, message.duration.halves * 30 * 1000)
    ELSE IF message.type = "CHECK_BLOCKED"
    THEN IF ~message.payloadOk THEN w
         ELSE handleCheckBlocked(w, message.domain)
    ELSE IF message.type = "GET_BLOCK_INFO"
    THEN IF message.domain = << >> THEN w
         ELSE getBlockInfo(w, blockInfoDomain(message.domain))
    ELSE IF message.type = "RECORD_DISTRACTION"
    THEN IF message.domain = << >> THEN w
         ELSE recordDistraction(w, message.domain)
    ELSE IF message.type = "START_BREAK" THEN startBreak(w, message.isLong)
    ELSE IF message.type = "OVERRIDE_BLOCK"
    THEN IF message.domain = << >> THEN w
         ELSE handleOverrideBlock(w, message.domain)
    ELSE IF message.type = "UPDATE_SCHEDULE"
    THEN IF ~message.scheduleOk THEN w
         ELSE handleUpdateSchedule(w, message.schedule)
    ELSE w

-----------------------------------------------------------------------------
(* Inputs *)

WwwRedditCom == Str_www \o RedditCom
WwwWwwRedditCom == Str_www \o WwwRedditCom
ExampleOrg == <<"e", ".", "o", "r", "g">>

NuclearMinutes == {1, 2}
QueryDomains == {RedditCom, WwwRedditCom, WwwWwwRedditCom, ExampleOrg}
OverrideDomains == {RedditCom}
PrebuiltListIds == {"social-media"}
TimeSteps == {MsPerMinute}

WwwACom == Str_www \o ACom
RedditUrl ==
    <<"H", "T", "T", "P", "S", ":", "/", "/", "W", "W", "W", ".", "R", "e", "d",
      "d", "i", "t", ".", "c", "o", "m", ":", "8", "0", "/", "r">>
NoDot == <<"a", "b", "c">>
TooManySites == [i \in 1..(MAX_BLOCKLIST_SIZE + 1) |-> ACom]

\* the site lists sent with UPDATE_BLOCKLIST
BlocklistRequests ==
    {<< >>, <<ACom, ACom, WwwACom>>, <<RedditUrl, XCom>>, <<WwwWwwRedditCom>>,
     <<RedditCom, NoDot>>, TooManySites}

\* n times www.
WwwPrefix(n) == [i \in 1..(4 * n) |-> Str_www[((i - 1) % 4) + 1]]

\* a.a. ... .a, of n characters (n odd)
DottedName(n) == [i \in 1..n |-> IF i % 2 = 0 THEN "." ELSE "a"]

\* what is typed in front of, as, and after a host name
SanitizeSchemes ==
    {<< >>, Str_http, Str_https, <<" ", "H", "T", "T", "P", ":", "/", "/">>}
SanitizeHosts ==
    {<< >>, ACom, <<"R", "e", "d", "d", "i", "t", ".", "c", "o", "m">>, NoDot,
     <<"a", ".", ".", "c", "o", "m">>, <<"-", "a", ".", "c", "o", "m">>,
     DottedName(253), DottedName(255)}
SanitizeTails ==
    {<< >>, <<"/", "p", ".", "q">>, <<":", "8", "0">>, <<"?", "q">>, <<"#", "f">>}

\* the strings handed to sanitizeDomain
SanitizeInputs ==
    {sch \o WwwPrefix(n) \o host \o tail :
        sch \in SanitizeSchemes, n \in 0..MaxWww, host \in SanitizeHosts,
        tail \in SanitizeTails}

\* the domains of the lists handed to updateBlockingRules
SyncDomains == {XCom, RedditCom, WwwRedditCom, ACom}

\* the lists handed to updateBlockingRules
SyncLists == UNION {[1..n -> SyncDomains] : n \in 0..MaxSyncLen}

\* a minute, and a second less
NearMinuteSteps == {MsPerMinute - 1000, MsPerMinute}

Time_0900 == <<"0", "9", ":", "0", "0">>
Time_0901 == <<"0", "9", ":", "0", "1">>

Schedules ==
    {NullSchedule,
     [isNull |-> FALSE, enabled |-> TRUE, days |-> {1},
      startTime |-> Time_0900, endTime |-> Time_0901]}

Time_1700 == <<"1", "7", ":", "0", "0">>
Time_0859 == <<"0", "8", ":", "5", "9">>

\* a schedule object sent with UPDATE_SCHEDULE
ScheduleOf(enabled, days, startTime, endTime) ==
    [isNull |-> FALSE, enabled |-> enabled, days |-> days,
     startTime |-> startTime, endTime |-> endTime]

\* absent, disabled, on Monday around the epoch, on the other workdays, with
\* start = end, overnight (end before start), and the working week
ScheduleInputs ==
    {NullSchedule,
     ScheduleOf(FALSE, {1}, Time_0900, Time_0901),
     ScheduleOf(TRUE, {1}, Time_0900, Time_0901),
     ScheduleOf(TRUE, {1}, Time_0859, Time_0900),
     ScheduleOf(TRUE, {1}, Time_0900, Time_0900),
     ScheduleOf(TRUE, {2, 3, 4, 5}, Time_0859, Time_1700),
     ScheduleOf(TRUE, {1}, Time_0901, Time_0900),
     ScheduleOf(TRUE, {1, 2, 3, 4, 5}, Time_0900, Time_1700)}

\* the schedule the options page starts from, enabled
WorkdaySchedule ==
    [isNull |-> FALSE, enabled |-> TRUE, days |-> {1, 2, 3, 4, 5},
     startTime |-> Time_0900, endTime |-> Time_1700]

-----------------------------------------------------------------------------
(* Initial state: chrome.runtime.onInstalled, reason 'install', at the epoch *)

InitSettings == [schedule |-> NullSchedule, nuclearMode |-> NullNuclear]

Init ==
    /\ now = 0
    /\ timerState = NullTimer
    /\ settings = InitSettings
    /\ blocklist = << >>
    /\ activePrebuiltLists = << >>
    /\ todayStats = FreshStats(isoDate(0))
    /\ sessionHistory = << >>
    /\ sessionCount = 0
    /\ streak = [current |-> 0, lastActiveDate |-> NULL]
    /\ rules = {}
    /\ alarms = [NoAlarms EXCEPT !.scheduleCheck = TRUE]
    /\ focusActive = FALSE
    /\ lastOp = [type |-> "install", arg |-> NULL]
    /\ response = NoResponse
    /\ inflight = {}

-----------------------------------------------------------------------------
(* Messages: handleMessage *)

Ran(type, arg, resp) ==
    /\ lastOp' = [type |-> type, arg |-> arg]
    /\ response' = resp

\* START_SESSION
StartSession(duration) ==
    /\ duration > 0 /\ duration <= 480
    /\ Commit(startFocusSession(World, duration))
    /\ Ran("START_SESSION", duration, Success)

\* STOP_SESSION
StopSession ==
    /\ Commit(stopSession(World))
    /\ Ran("STOP_SESSION", NULL,
           IF stopSessionResult(World).kind = "error"
           THEN Failure(stopSessionResult(World).error) ELSE Success)

\* GET_STATE
GetState ==
    /\ Commit(getFullState(World))
    /\ Ran("GET_STATE", NULL, getFullStateResult(World))

\* GET_BLOCK_INFO
GetBlockInfo(domain) ==
    /\ domain # << >>
    /\ LET cleanedDomain == sanitizeDomain(domain)
           d == IF cleanedDomain # << >> THEN cleanedDomain ELSE domain
       IN /\ Commit(getBlockInfo(World, d))
          /\ Ran("GET_BLOCK_INFO", domain, getBlockInfoResult(World, d))

\* UPDATE_BLOCKLIST
UpdateBlocklist(sites) ==
    /\ Commit(handleUpdateBlocklist(World, sites))
    /\ Ran("UPDATE_BLOCKLIST", sites,
           IF blocklistRefusal(World, sites) # ""
           THEN Failure(blocklistRefusal(World, sites)) ELSE Success)

\* TOGGLE_PREBUILT_LIST
TogglePrebuiltList(listId) ==
    /\ listId \in ALLOWED_PREBUILT_LIST_IDS
    /\ Commit(handleTogglePrebuiltList(World, listId))
    /\ Ran("TOGGLE_PREBUILT_LIST", listId,
           IF isNuclearActive(World)
           THEN Failure("Cannot modify lists during nuclear mode.") ELSE Success)

\* ACTIVATE_NUCLEAR
ActivateNuclear(duration) ==
    /\ duration > 0 /\ duration <= 1440
    /\ Commit(activateNuclear(World, duration))
    /\ Ran("ACTIVATE_NUCLEAR", duration, Success)

\* CHECK_BLOCKED
CheckBlocked(domain) ==
    /\ Commit(handleCheckBlocked(World, domain))
    /\ Ran("CHECK_BLOCKED", domain, Decision(handleCheckBlockedResult(World, domain)))

\* RECORD_DISTRACTION (the stats it returns are not kept in response)
RecordDistraction(domain) ==
    /\ Commit(recordDistraction(World, domain))
    /\ Ran("RECORD_DISTRACTION", domain, Success)

\* START_BREAK
StartBreak(isLong) ==
    /\ Commit(startBreak(World, isLong))
    /\ Ran("START_BREAK", isLong, Success)

\* SKIP_BREAK
SkipBreak(duration) ==
    /\ duration > 0 /\ duration <= 480
    /\ Commit(startFocusSession(World, duration))
    /\ Ran("SKIP_BREAK", duration, Success)

\* OVERRIDE_BLOCK
OverrideBlock(domain) ==
    /\ Commit(handleOverrideBlock(World, domain))
    /\ Ran("OVERRIDE_BLOCK", domain,
           IF isNuclearActive(World)
           THEN Failure("Cannot override blocks during nuclear mode.") ELSE Success)

\* UPDATE_SCHEDULE
UpdateSchedule(schedule) ==
    /\ Commit(handleUpdateSchedule(World, schedule))
    /\ Ran("UPDATE_SCHEDULE", schedule, Success)

\* chrome.runtime.onMessage with any message at all
OnMessage(message) ==
    /\ Commit(handleMessage(World, message))
    /\ Ran("onMessage", message, handleMessageResult(World, message))

-----------------------------------------------------------------------------
(* A call of chrome.declarativeNetRequest or chrome.alarms that rejects.
   fails names the call: "getDynamicRules", "updateDynamicRules" (the first
   one the handler reaches), "alarms.create", or "none". *)

ApiCalls == {"getDynamicRules", "updateDynamicRules", "alarms.create"}

\* updateBlockingRules(domains) with a failing call: the catch of the function
\* ends it, the rule table is as it was
updateBlockingRulesWhen(w, domains, fails) ==
    IF fails \in {"getDynamicRules", "updateDynamicRules"}
          /\ (fails = "getDynamicRules" \/ w.rules # {} \/ Len(domains) > 0)
    THEN w
    ELSE updateBlockingRules(w, domains)

\* startFocusSession(durationMinutes) with a failing call; alarms.create is
\* its last statement and is not inside a try
startFocusSessionWhen(w, durationMinutes, fails) ==
    LET w1 == startFocusSession(w, durationMinutes)
        w2 == [w1 EXCEPT !.rules =
                 updateBlockingRulesWhen(w, getFullBlocklist(w), fails).rules]
    IN IF fails = "alarms.create" THEN [w2 EXCEPT !.alarms.tick = w.alarms.tick]
       ELSE w2

\* startFocusSession throws what alarms.create threw
startFocusSessionThrows(fails) == fails = "alarms.create"

\* activateNuclear(durationMinutes) with a failing call; the whole body is
\* inside a try
activateNuclearWhen(w, durationMinutes, fails) ==
    LET w1 == activateNuclear(w, durationMinutes)
        w2 == [w1 EXCEPT !.rules =
                 updateBlockingRulesWhen(w, getFullBlocklist(w), fails).rules]
    IN IF fails = "alarms.create"
       THEN [w2 EXCEPT !.alarms.nuclearEnd = w.alarms.nuclearEnd]
       ELSE w2

\* handleOverrideBlock(domain) throws: none of its calls is inside a try
handleOverrideBlockThrows(w, domain, fails) ==
    /\ ~isNuclearActive(w)
    /\ \/ fails = "getDynamicRules"
       \/ /\ fails = "updateDynamicRules"
          /\ \E r \in w.rules : r.urlFilter = Str_bars \o cleanDomain(domain)
       \/ fails = "alarms.create"

\* handleOverrideBlock(domain) with a failing call: the store when it ends or
\* throws
handleOverrideBlockWhen(w, domain, fails) ==
    LET w1 == afterIsNuclearActive(w)
        w2 == handleOverrideBlock(w, domain)
    IN IF ~handleOverrideBlockThrows(w, domain, fails) THEN w2
       ELSE IF fails = "alarms.create" THEN [w2 EXCEPT !.alarms = w.alarms]
       ELSE recordDistraction(w1, domain)

\* the listener's catch: sendResponse({ error: err.message }); the message of
\* the error is the name of the call
Rejected(fails) == Failure(fails)

\* START_SESSION while a call fails
StartSessionWhen(duration, fails) ==
    /\ duration > 0 /\ duration <= 480
    /\ Commit(startFocusSessionWhen(World, duration, fails))
    /\ Ran("START_SESSION", [duration |-> duration, fails |-> fails],
           IF startFocusSessionThrows(fails) THEN Rejected(fails) ELSE Success)

\* ACTIVATE_NUCLEAR while a call fails
ActivateNuclearWhen(duration, fails) ==
    /\ duration > 0 /\ duration <= 1440
    /\ Commit(activateNuclearWhen(World, duration, fails))
    /\ Ran("ACTIVATE_NUCLEAR", [duration |-> duration, fails |-> fails], Success)

\* OVERRIDE_BLOCK while a call fails
OverrideBlockWhen(domain, fails) ==
    /\ Commit(handleOverrideBlockWhen(World, domain, fails))
    /\ Ran("OVERRIDE_BLOCK", [domain |-> domain, fails |-> fails],
           IF isNuclearActive(World)
           THEN Failure("Cannot override blocks during nuclear mode.")
           ELSE IF handleOverrideBlockThrows(World, domain, fails)
                THEN Rejected(fails)
           ELSE Success)

-----------------------------------------------------------------------------
(* Handlers suspended at a storage call.  A handler that has read a key holds
   its own copy of the value; other handlers may run before it writes. *)

\* a suspended handler and what it holds
Suspended(handler) ==
    [handler |-> handler, instance |-> 1, settings |-> InitSettings,
     timerState |-> NullTimer, schedule |-> NullSchedule, minutes |-> 0,
     stats |-> FreshStats(isoDate(0)), domain |-> << >>]

\* the handlers of the service worker that are suspended (the options page
\* keeps its copy of the settings for as long as it is open)
Running == {h \in inflight : h.handler # "options"}

\* the handler starts: it joins the suspended ones, the store is untouched
Suspend(h) ==
    /\ \A g \in inflight :
          g.handler # h.handler \/ g.instance # h.instance
    /\ CommitStore(World)
    /\ inflight' = inflight \cup {h}

\* the suspended handler h runs to its end and leaves the state w behind
Resume(h, w) ==
    /\ CommitStore(w)
    /\ inflight' = inflight \ {h}

\* UPDATE_SCHEDULE: handleUpdateSchedule up to getStorage('settings')
UpdateScheduleRead(schedule) ==
    /\ Suspend([Suspended("handleUpdateSchedule") EXCEPT
                  !.settings = settings, !.schedule = schedule])
    /\ Ran("UPDATE_SCHEDULE:read", schedule, NoResponse)

\* UPDATE_SCHEDULE: handleUpdateSchedule from setStorage({ settings }) on
UpdateScheduleWrite ==
    \E h \in inflight :
        /\ h.handler = "handleUpdateSchedule"
        /\ Resume(h, handleUpdateSchedule([World EXCEPT !.settings = h.settings],
                                          h.schedule))
        /\ Ran("UPDATE_SCHEDULE", h.schedule, Success)

\* ACTIVATE_NUCLEAR: activateNuclear up to getStorage('settings')
ActivateNuclearRead(duration) ==
    /\ duration > 0 /\ duration <= 1440
    /\ Suspend([Suspended("activateNuclear") EXCEPT
                  !.settings = settings, !.minutes = duration])
    /\ Ran("ACTIVATE_NUCLEAR:read", duration, NoResponse)

\* ACTIVATE_NUCLEAR: activateNuclear from setStorage({ settings }) on
ActivateNuclearWrite ==
    \E h \in inflight :
        /\ h.handler = "activateNuclear"
        /\ Resume(h, activateNuclear([World EXCEPT !.settings = h.settings],
                                     h.minutes))
        /\ Ran("ACTIVATE_NUCLEAR", h.minutes, Success)

\* GET_STATE: getFullState up to the read in isNuclearActive that finds the
\* stored lock past its end
GetStateRead ==
    /\ ~settings.nuclearMode.isNull
    /\ settings.nuclearMode.active
    /\ now >= settings.nuclearMode.endsAt
    /\ Suspend([Suspended("isNuclearActive") EXCEPT !.settings = settings])
    /\ Ran("GET_STATE:read", NULL, NoResponse)

\* GET_STATE: getFullState from the write in isNuclearActive on
GetStateWrite ==
    \E h \in inflight :
        /\ h.handler = "isNuclearActive"
        /\ Resume(h, getTodayStats(
                       [World EXCEPT !.settings =
                          [h.settings EXCEPT !.nuclearMode = NuclearOff]]))
        /\ Ran("GET_STATE", NULL,
               [getFullStateResult(World) EXCEPT !.nuclearActive = FALSE])

\* two firings of the tick alarm may be in progress at once
TickInstances == {1, 2}

\* focus-tick: onAlarmTick up to getTimerState()
TickRead(instance) ==
    /\ alarms.tick
    /\ Suspend([Suspended("onAlarmTick") EXCEPT
                  !.instance = instance, !.timerState = timerState])
    /\ Ran("alarm:focus-tick:read", NULL, NoResponse)

\* focus-tick: onAlarmTick from there on, with the timer state it read
TickFinish ==
    \E h \in inflight :
        /\ h.handler = "onAlarmTick"
        /\ Resume(h, IF noTimer([World EXCEPT !.timerState = h.timerState])
                     THEN [World EXCEPT !.alarms.tick = FALSE]
                     ELSE onAlarmTick([World EXCEPT !.timerState = h.timerState]))
        /\ Ran("alarm:focus-tick", NULL, NoResponse)

\* chrome.runtime.onStartup with a timer running: restoreState up to
\* getTimerState()
StartupRead ==
    /\ timerState.status \in {"focus", "break", "longbreak"}
    /\ Suspend([Suspended("restoreState") EXCEPT !.timerState = timerState])
    /\ Ran("startup:read", NULL, NoResponse)

\* chrome.runtime.onStartup: restoreState from there on, with the timer
\* state it read
StartupFinish ==
    \E h \in inflight :
        /\ h.handler = "restoreState"
        /\ Resume(h, restoreState(ensureScheduleAlarm(
                       [World EXCEPT !.timerState = h.timerState,
                                     !.focusActive = FALSE])))
        /\ Ran("startup", NULL, NoResponse)

\* two RECORD_DISTRACTION messages may be in progress at once
RecordInstances == {1, 2}

\* RECORD_DISTRACTION: recordDistraction up to the end of getTodayStats()
RecordRead(instance, domain) ==
    /\ \A g \in inflight :
          g.handler # "recordDistraction" \/ g.instance # instance
    /\ CommitStore(getTodayStats(World))
    /\ inflight' = inflight \cup
          {[Suspended("recordDistraction") EXCEPT
              !.instance = instance,
              !.stats = getTodayStats(World).todayStats,
              !.domain = domain]}
    /\ Ran("RECORD_DISTRACTION:read", domain, NoResponse)

\* RECORD_DISTRACTION: recordDistraction from there on, with the stats it
\* read
RecordWrite ==
    \E h \in inflight :
        /\ h.handler = "recordDistraction"
        /\ Resume(h, recordDistraction([World EXCEPT !.todayStats = h.stats],
                                       h.domain))
        /\ Ran("RECORD_DISTRACTION", h.domain, Success)

\* the options page is opened: loadSettings keeps the settings it read
OptionsLoad ==
    /\ Suspend([Suspended("options") EXCEPT !.settings = settings])
    /\ Ran("options:load", NULL, NoResponse)

\* the options page saves after a change of a preference: saveSettings
\* writes the settings object the page holds
OptionsSave ==
    \E h \in inflight :
        /\ h.handler = "options"
        /\ CommitStore([World EXCEPT !.settings = h.settings])
        /\ inflight' = inflight
        /\ Ran("options:save", NULL, NoResponse)

-----------------------------------------------------------------------------
(* Alarms: chrome.alarms.onAlarm *)

Due(when) == when # NULL /\ now >= when

\* focus-tick, periodic
AlarmTick ==
    /\ alarms.tick
    /\ Commit(onAlarmTick(World))
    /\ Ran("alarm:focus-tick", NULL, NoResponse)

\* schedule-check, periodic
AlarmScheduleCheck ==
    /\ alarms.scheduleCheck
    /\ Commit(checkSchedule(World))
    /\ Ran("alarm:schedule-check", NULL, NoResponse)

\* nuclear-end, one-shot
AlarmNuclearEnd ==
    /\ Due(alarms.nuclearEnd)
    /\ Commit(onNuclearEnd([World EXCEPT !.alarms.nuclearEnd = NULL]))
    /\ Ran("alarm:nuclear-end", NULL, NoResponse)

\* override-<domain>, one-shot
AlarmOverride ==
    \E o \in alarms.override :
        /\ Due(o.when)
        /\ Commit(onOverrideExpiry([World EXCEPT !.alarms.override = @ \ {o}],
                                   o.domain))
        /\ Ran("alarm:override", o.domain, NoResponse)

-----------------------------------------------------------------------------
(* Keyboard shortcuts: chrome.commands.onCommand *)

\* quick-focus
CommandQuickFocus ==
    IF timerState.status \in {"focus", "break", "longbreak"}
    THEN /\ Commit(stopSession(World))
         /\ Ran("command:quick-focus", "stop",
                IF stopSessionResult(World).kind = "error"
                THEN Failure(stopSessionResult(World).error) ELSE Success)
    ELSE /\ Commit(startFocusSession(World, focusDuration))
         /\ Ran("command:quick-focus", "start", NoResponse)

\* nuclear-mode
CommandNuclearMode ==
    /\ Commit(IF isNuclearActive(World) THEN afterIsNuclearActive(World)
              ELSE activateNuclear(afterIsNuclearActive(World), 60))
    /\ Ran("command:nuclear-mode", NULL, NoResponse)

-----------------------------------------------------------------------------
(* Lifecycle *)

\* chrome.runtime.onStartup: the browser starts; storage.session starts empty
OnStartup ==
    /\ Commit(restoreState(ensureScheduleAlarm([World EXCEPT !.focusActive = FALSE])))
    /\ Ran("startup", NULL, NoResponse)

\* chrome.runtime.onInstalled, reason 'update'
OnInstalledUpdate ==
    /\ Commit(restoreState(ensureScheduleAlarm(World)))
    /\ Ran("update", NULL, NoResponse)

\* time passes
Advance(dt) ==
    /\ now' = now + dt
    /\ UNCHANGED <<timerState, settings, blocklist, activePrebuiltLists,
                   todayStats, sessionHistory, sessionCount, streak, rules,
                   alarms, focusActive, inflight>>
    /\ Ran("advance", dt, NoResponse)

-----------------------------------------------------------------------------
(* Specifications *)

\* a focus session may still be started and recorded
MayStart == sessionCount + (IF timerState.status = "focus" THEN 1 ELSE 0) < MaxSessions

\* quick-focus stops a running timer, or may still start a session
MayQuickFocus == timerState.status \in {"focus", "break", "longbreak"} \/ MayStart

\* a distraction may still be recorded
MayAttempt == todayStats.totalAttempts < MaxAttempts

\* the clock has not reached the horizon
MayAdvance(dt) == now + dt <= MaxMinutes * MsPerMinute

\* The nuclear lock among the operations that start, end and restart blocking.
NextNuclear ==
    \/ MayStart /\ StartSession(focusDuration)
    \/ StopSession
    \/ UpdateBlocklist(<<RedditCom>>)
    \/ \E m \in NuclearMinutes : ActivateNuclear(m)
    \/ StartBreak(FALSE)
    \/ \E d \in OverrideDomains : MayAttempt /\ OverrideBlock(d)
    \/ \E sch \in Schedules : UpdateSchedule(sch)
    \/ AlarmTick
    \/ AlarmScheduleCheck
    \/ AlarmNuclearEnd
    \/ CommandNuclearMode
    \/ OnStartup
    \/ \E dt \in TimeSteps : MayAdvance(dt) /\ Advance(dt)

SpecNuclear == Init /\ [][NextNuclear]_vars

\* Stopping a session, with and without the nuclear lock.
NextStop ==
    \/ MayStart /\ StartSession(focusDuration)
    \/ StopSession
    \/ UpdateBlocklist(<<RedditCom>>)
    \/ \E m \in NuclearMinutes : ActivateNuclear(m)
    \/ StartBreak(FALSE)
    \/ MayQuickFocus /\ CommandQuickFocus
    \/ AlarmTick
    \/ AlarmNuclearEnd
    \/ \E dt \in TimeSteps : MayAdvance(dt) /\ Advance(dt)

SpecStop == Init /\ [][NextStop]_vars

\* Changing the lists and overriding a block, with and without the nuclear lock.
NextLists ==
    \/ MayStart /\ StartSession(focusDuration)
    \/ \E sites \in {<< >>, <<RedditCom>>} : UpdateBlocklist(sites)
    \/ \E id \in PrebuiltListIds : TogglePrebuiltList(id)
    \/ \E m \in NuclearMinutes : ActivateNuclear(m)
    \/ \E d \in OverrideDomains : MayAttempt /\ OverrideBlock(d)
    \/ AlarmNuclearEnd
    \/ \E dt \in TimeSteps : MayAdvance(dt) /\ Advance(dt)

SpecLists == Init /\ [][NextLists]_vars

\* The block decision and the state query under every activation source.
NextDecision ==
    \/ MayStart /\ StartSession(focusDuration)
    \/ \E sites \in {<<RedditCom>>, <<WwwWwwRedditCom>>} : UpdateBlocklist(sites)
    \/ \E m \in NuclearMinutes : ActivateNuclear(m)
    \/ \E l \in BOOLEAN : StartBreak(l)
    \/ \E sch \in Schedules : UpdateSchedule(sch)
    \/ \E d \in QueryDomains : CheckBlocked(d)
    \/ GetState
    \/ \E dt \in TimeSteps : MayAdvance(dt) /\ Advance(dt)

SpecDecision == Init /\ [][NextDecision]_vars

\* the timer is running and has time left
TimerRunning ==
    /\ ~noTimer(World)
    /\ elapsedSeconds(World, timerState) < timerState.duration

\* another focus session of the cycle may be started
MayStartCycle == sessionCount + (IF timerState.status = "focus" THEN 1 ELSE 0) < MaxCycleSessions

\* One-minute focus sessions run to completion, one after the other, never stopped.
NextCycle ==
    \/ ~inFocus(World) /\ MayStartCycle /\ StartSession(1)
    \/ timerState.status \in {"break", "longbreak"} /\ MayStartCycle /\ SkipBreak(1)
    \/ AlarmTick
    \/ \E dt \in TimeSteps : TimerRunning /\ Advance(dt)

SpecCycle == Init /\ [][NextCycle]_vars

\* the requests arrive before the horizon; afterwards the timers run out
Setup == MayAdvance(0)

\* A 25-minute session and its break run to completion, tick by tick.
NextTimer ==
    \/ Setup /\ MayStart /\ StartSession(focusDuration)
    \/ Setup /\ UpdateBlocklist(<<RedditCom>>)
    \/ Setup /\ CommandNuclearMode
    \/ Setup /\ (\E sch \in {NullSchedule, WorkdaySchedule} : UpdateSchedule(sch))
    \/ Setup /\ (\E l \in BOOLEAN : StartBreak(l))
    \/ AlarmTick
    \/ \E dt \in TimeSteps : (MayAdvance(dt) \/ TimerRunning) /\ Advance(dt)

SpecTimer == Init /\ [][NextTimer]_vars

\* Sessions stopped a whole minute, or a second less, after they started.
NextHalt ==
    \/ MayStart /\ StartSession(focusDuration)
    \/ StopSession
    \/ UpdateBlocklist(<<RedditCom>>)
    \/ ActivateNuclear(1)
    \/ StartBreak(FALSE)
    \/ \E sch \in Schedules : UpdateSchedule(sch)
    \/ \E dt \in NearMinuteSteps : MayAdvance(dt) /\ Advance(dt)

SpecHalt == Init /\ [][NextHalt]_vars

\* The browser restarts while a one-minute session and the nuclear lock run.
NextRestart ==
    \/ MayStart /\ StartSession(1)
    \/ UpdateBlocklist(<<RedditCom>>)
    \/ \E m \in NuclearMinutes : ActivateNuclear(m)
    \/ StartBreak(FALSE)
    \/ \E sch \in Schedules : UpdateSchedule(sch)
    \/ AlarmTick
    \/ AlarmNuclearEnd
    \/ OnStartup
    \/ \E dt \in TimeSteps : MayAdvance(dt) /\ Advance(dt)

SpecRestart == Init /\ [][NextRestart]_vars

\* an override is waiting for its alarm
OverridePending == \E o \in alarms.override : now < o.when

\* An override of x.com and the five minutes until its alarm, under every
\* activation source.
NextOverride ==
    \/ Setup /\ MayStart /\ StartSession(focusDuration)
    \/ Setup /\ StopSession
    \/ Setup /\ UpdateBlocklist(<<XCom, RedditCom>>)
    \/ Setup /\ CommandNuclearMode
    \/ Setup /\ (\E sch \in {NullSchedule, WorkdaySchedule} : UpdateSchedule(sch))
    \/ Setup /\ MayAttempt /\ OverrideBlock(XCom)
    \/ CheckBlocked(XCom)
    \/ AlarmScheduleCheck
    \/ AlarmOverride
    \/ \E dt \in TimeSteps : (MayAdvance(dt) \/ OverridePending) /\ Advance(dt)

SpecOverride == Init /\ [][NextOverride]_vars

\* the rule table is any table a sync has left behind
InitSync ==
    /\ now = 0
    /\ timerState = NullTimer
    /\ settings = InitSettings
    /\ blocklist = << >>
    /\ activePrebuiltLists = << >>
    /\ todayStats = FreshStats(isoDate(0))
    /\ sessionHistory = << >>
    /\ sessionCount = 0
    /\ streak = [current |-> 0, lastActiveDate |-> NULL]
    /\ rules \in {{blockingRule(i, domains[i]) : i \in 1..Len(domains)} :
                     domains \in SyncLists}
    /\ alarms = [NoAlarms EXCEPT !.scheduleCheck = TRUE]
    /\ focusActive = FALSE
    /\ lastOp = [type |-> "install", arg |-> NULL]
    /\ response = NoResponse
    /\ inflight = {}

\* updateBlockingRules(domains), called on its own
Sync(domains) ==
    /\ Commit(updateBlockingRules(World, domains))
    /\ Ran("updateBlockingRules", domains, NoResponse)

\* clearBlockingRules(), called on its own
Clear ==
    /\ Commit(clearBlockingRules(World))
    /\ Ran("clearBlockingRules", NULL, NoResponse)

\* The rule sync applied to every list, from every table and from a table an
\* override has taken a rule out of.
NextSync ==
    \/ \E domains \in SyncLists : Sync(domains)
    \/ Clear
    \/ \E d \in SyncDomains : MayAttempt /\ OverrideBlock(d)

SpecSync == InitSync /\ [][NextSync]_vars

\* Blocklist updates, well-formed and not, with and without a session.
NextBlocklist ==
    \/ MayStart /\ StartSession(focusDuration)
    \/ StopSession
    \/ \E sites \in BlocklistRequests : UpdateBlocklist(sites)
    \/ \E dt \in TimeSteps : MayAdvance(dt) /\ Advance(dt)

SpecBlocklist == Init /\ [][NextBlocklist]_vars

\* sanitizeDomain applied to one typed string, sent right after the install.
NextSanitize ==
    \E x \in SanitizeInputs : lastOp.type = "install" /\ UpdateBlocklist(<<x>>)

SpecSanitize == Init /\ [][NextSanitize]_vars

\* a break is running and has time left
BreakRunning == timerState.status \in {"break", "longbreak"} /\ TimerRunning

\* Schedules of every kind stored and checked, with no timer, with a session,
\* and with a break that runs out and leaves the timer idle.
NextSchedule ==
    \/ Setup /\ MayStart /\ StartSession(focusDuration)
    \/ Setup /\ StartBreak(FALSE)
    \/ Setup /\ UpdateBlocklist(<<RedditCom>>)
    \/ Setup /\ ActivateNuclear(1)
    \/ \E sch \in ScheduleInputs : UpdateSchedule(sch)
    \/ AlarmScheduleCheck
    \/ AlarmTick
    \/ \E dt \in TimeSteps : (MayAdvance(dt) \/ BreakRunning) /\ Advance(dt)

SpecSchedule == Init /\ [][NextSchedule]_vars

\* The state read by the popup and by the block page while a one-minute
\* session or a break runs, runs out, and is ticked or not.
NextRead ==
    \/ MayStart /\ StartSession(1)
    \/ \E l \in BOOLEAN : StartBreak(l)
    \/ AlarmTick
    \/ GetState
    \/ GetBlockInfo(RedditCom)
    \/ \E dt \in NearMinuteSteps : MayAdvance(dt) /\ Advance(dt)

SpecRead == Init /\ [][NextRead]_vars

\* The page guard's query against a store set up at the start of the day
\* (list, lock, schedule, session) while only the clock moves afterwards.
NextQuery ==
    \/ now = 0 /\ UpdateBlocklist(<<RedditCom>>)
    \/ now = 0 /\ \E m \in NuclearMinutes : ActivateNuclear(m)
    \/ now = 0 /\ MayStart /\ StartSession(focusDuration)
    \/ now = 0 /\ \E sch \in Schedules : UpdateSchedule(sch)
    \/ \E d \in QueryDomains : CheckBlocked(d)
    \/ \E dt \in TimeSteps : MayAdvance(dt) /\ Advance(dt)

SpecQuery == Init /\ [][NextQuery]_vars

\* A list is stored once after install; then sessions, breaks, stops, ticks,
\* schedule checks, schedule updates, the lock and its expiry in any order.
NextAgree ==
    \/ lastOp.type = "install" /\ UpdateBlocklist(<<RedditCom>>)
    \/ MayStart /\ StartSession(1)
    \/ \E l \in BOOLEAN : StartBreak(l)
    \/ StopSession
    \/ AlarmTick
    \/ AlarmScheduleCheck
    \/ \E sch \in Schedules : UpdateSchedule(sch)
    \/ ActivateNuclear(1)
    \/ AlarmNuclearEnd
    \/ \E dt \in TimeSteps : MayAdvance(dt) /\ Advance(dt)

SpecAgree == Init /\ [][NextAgree]_vars

\* Handlers that rewrite the settings, each split at its read of the settings,
\* with the lock's alarm; the clock moves while no handler of the service
\* worker is suspended.
NextSettings ==
    \/ \E sch \in Schedules : UpdateScheduleRead(sch)
    \/ UpdateScheduleWrite
    \/ ActivateNuclearRead(1)
    \/ ActivateNuclearWrite
    \/ GetStateRead
    \/ GetStateWrite
    \/ OptionsLoad
    \/ OptionsSave
    \/ Running = {} /\ AlarmNuclearEnd
    \/ \E dt \in TimeSteps : Running = {} /\ MayAdvance(dt) /\ Advance(dt)

SpecSettings == Init /\ [][NextSettings]_vars

\* One-minute sessions whose end is seen by tick handlers and by the recovery
\* at startup, each split at its read of the timer state.
NextComplete ==
    \/ Running = {} /\ MayStart /\ StartSession(1)
    \/ \E i \in TickInstances : TickRead(i)
    \/ TickFinish
    \/ StartupRead
    \/ StartupFinish
    \/ \E dt \in TimeSteps : MayAdvance(dt) /\ Advance(dt)

SpecComplete == Init /\ [][NextComplete]_vars

\* One-minute sessions and breaks that run out, with the lock and restarts
\* of the browser; a running session or break is not started anew.
NextTerminate ==
    \/ Setup /\ noTimer(World) /\ MayStart /\ StartSession(1)
    \/ Setup /\ inFocus(World) /\ \E l \in BOOLEAN : StartBreak(l)
    \/ Setup /\ ActivateNuclear(1)
    \/ AlarmTick
    \/ AlarmNuclearEnd
    \/ OnStartup
    \/ \E dt \in TimeSteps : (MayAdvance(dt) \/ BreakRunning) /\ Advance(dt)

SpecTerminate == Init /\ [][NextTerminate]_vars

\* the focus-tick alarm is periodic (periodInMinutes: 1): while it is
\* registered its handler runs again and again
FairSpecTerminate == SpecTerminate /\ WF_vars(AlarmTick)

\* A list, a session, a break, the lock and a schedule set up in the first
\* minutes; then the alarms and the clock alone.
NextOutlive ==
    \/ Setup /\ UpdateBlocklist(<<RedditCom>>)
    \/ Setup /\ noTimer(World) /\ MayStart /\ StartSession(1)
    \/ Setup /\ timerState.status \notin {"break", "longbreak"} /\ StartBreak(FALSE)
    \/ Setup /\ ActivateNuclear(1)
    \/ Setup /\ \E sch \in Schedules : UpdateSchedule(sch)
    \/ AlarmTick
    \/ AlarmScheduleCheck
    \/ AlarmNuclearEnd
    \/ \E dt \in TimeSteps : (MayAdvance(dt) \/ BreakRunning) /\ Advance(dt)

SpecOutlive == Init /\ [][NextOutlive]_vars

\* focus-tick and schedule-check are periodic alarms (periodInMinutes: 1),
\* and the time of a running break passes
FairSpecOutlive ==
    /\ SpecOutlive
    /\ WF_vars(AlarmTick)
    /\ WF_vars(AlarmScheduleCheck)
    /\ WF_vars(\E dt \in TimeSteps : BreakRunning /\ Advance(dt))

\* messages of every shape: malformed, of unknown type, with durations and
\* list ids inside and outside what the handler accepts
MessageInputs ==
    {[Message("") EXCEPT !.isObject = FALSE, !.hasType = FALSE],
     [Message("") EXCEPT !.hasType = FALSE],
     Message("PING"),
     Message("STOP_SESSION"), Message("GET_STATE"), Message("START_BREAK"),
     Message("CHECK_BLOCKED"),
     [Message("CHECK_BLOCKED") EXCEPT !.payloadOk = TRUE, !.domain = RedditCom],
     Message("GET_BLOCK_INFO"), Message("RECORD_DISTRACTION"),
     Message("OVERRIDE_BLOCK"),
     [Message("UPDATE_BLOCKLIST") EXCEPT !.sites = <<RedditCom>>],
     [Message("UPDATE_SCHEDULE") EXCEPT !.scheduleOk = FALSE],
     [Message("UPDATE_SCHEDULE") EXCEPT !.schedule = WorkdaySchedule],
     [Message("SKIP_BREAK") EXCEPT !.duration = Minutes(481)]}
    \cup {[Message("START_SESSION") EXCEPT !.duration = d] :
            d \in {NoDuration, NotANumber, Minutes(0 - 1), Minutes(0),
                   HalfMinutes(1), Minutes(1), Minutes(480), HalfMinutes(961),
                   Minutes(481)}}
    \cup {[Message("ACTIVATE_NUCLEAR") EXCEPT !.duration = d] :
            d \in {NoDuration, NotANumber, Minutes(0), HalfMinutes(1),
                   Minutes(1), Minutes(1440), Minutes(1441)}}
    \cup {[Message("TOGGLE_PREBUILT_LIST") EXCEPT !.listId = l] :
            l \in {"", "adult", "social-media"}}

\* Any message in any order at the start of the day; the tick and the
\* lock's alarm run as the clock moves.
NextMessages ==
    \/ \E message \in MessageInputs :
          /\ now = 0
          /\ (message.type \in {"START_SESSION", "SKIP_BREAK"}) => MayStart
          /\ OnMessage(message)
    \/ AlarmTick
    \/ AlarmNuclearEnd
    \/ \E dt \in TimeSteps : MayAdvance(dt) /\ Advance(dt)

SpecMessages == Init /\ [][NextMessages]_vars

-----------------------------------------------------------------------------
(* Claims *)

\* C1: while the nuclear lock is active and unexpired (stored active = true and
\* now < endsAt), the rule table holds a rule for every domain of the effective
\* domain set, whatever operations were issued after the activation.
C1_NuclearRulesComplete ==
    nuclearUnexpired(World) =>
        \A d \in Range(getFullBlocklist(World)) :
            \E r \in rules : r.urlFilter = Str_bars \o cleanDomain(d)

\* C2: no step taken before the stored expiry makes the nuclear lock inactive
\* or moves the stored endsAt to an earlier time.
C2_NuclearNonCancelable ==
    [][nuclearUnexpired(World) =>
          /\ ~settings'.nuclearMode.isNull
          /\ settings'.nuclearMode.active
          /\ settings'.nuclearMode.endsAt >= settings.nuclearMode.endsAt]_vars

C4_BlockedIff ==
    lastOp.type = "CHECK_BLOCKED" =>
        (response.blocked <=>
            /\ \E e \in Range(getFullBlocklist(World)) :
                   StripWww(e) = StripWww(lastOp.arg)
            /\ \/ (/\ ~settings.nuclearMode.isNull
                    /\ settings.nuclearMode.active
                    /\ now < settings.nuclearMode.endsAt)
               \/ timerState.status = "focus"
               \/ isScheduleActive(World))

\* C4: "www.reddit.com" was queried with "reddit.com" listed and the nuclear
\* lock as the only activation source, and the answer was blocked.
C4_Witness ==
    /\ lastOp = [type |-> "CHECK_BLOCKED", arg |-> WwwRedditCom]
    /\ blocklist = <<RedditCom>>
    /\ nuclearUnexpired(World)
    /\ timerState.status = "break"
    /\ ~isScheduleActive(World)
    /\ response.blocked

C6_StopRefused ==
    [][(/\ nuclearUnexpired(World)
        /\ \/ lastOp'.type = "STOP_SESSION"
           \/ lastOp' = [type |-> "command:quick-focus", arg |-> "stop"])
       => /\ response' = Failure("Cannot stop session during nuclear mode.")
          /\ UNCHANGED <<timerState, alarms, rules, sessionHistory, sessionCount,
                         todayStats, streak, settings, blocklist,
                         activePrebuiltLists, focusActive>>]_vars

\* C6: the quick-focus shortcut tried to stop a running focus session under
\* the nuclear lock and was refused.
C6_Witness ==
    /\ lastOp = [type |-> "command:quick-focus", arg |-> "stop"]
    /\ nuclearUnexpired(World)
    /\ timerState.status = "focus"
    /\ alarms.tick
    /\ rules # {}
    /\ response.kind = "error"

\* C7: while the nuclear lock is active and unexpired, UPDATE_BLOCKLIST and
\* TOGGLE_PREBUILT_LIST answer with an error and leave the stored blocklist,
\* the stored prebuilt groups and the rule table unchanged; and no step of the
\* nuclear window changes the effective domain set.
C7_ListsFrozen ==
    [][nuclearUnexpired(World) =>
          /\ (lastOp'.type \in {"UPDATE_BLOCKLIST", "TOGGLE_PREBUILT_LIST"}
                => /\ response'.kind = "error"
                   /\ UNCHANGED <<blocklist, activePrebuiltLists, rules>>)
          /\ Dedup(blocklist' \o PrebuiltSites(activePrebuiltLists'))
                = Dedup(blocklist \o PrebuiltSites(activePrebuiltLists))]_vars

\* C7: emptying the blocklist was refused under the nuclear lock.
C7_Witness ==
    /\ lastOp = [type |-> "UPDATE_BLOCKLIST", arg |-> << >>]
    /\ nuclearUnexpired(World)
    /\ blocklist = <<RedditCom>>
    /\ rules # {}
    /\ response.kind = "error"

\* C8: while the nuclear lock is active and unexpired, override(d) answers
\* with an error and has no effect: no distraction is recorded, no rule leaves
\* the rule table and no override expiry alarm is armed.
C8_OverrideRefused ==
    [][(nuclearUnexpired(World) /\ lastOp'.type = "OVERRIDE_BLOCK")
       => /\ response'.kind = "error"
          /\ UNCHANGED <<todayStats, rules, alarms>>]_vars

\* C8: overriding a blocked domain was refused under the nuclear lock.
C8_Witness ==
    /\ lastOp = [type |-> "OVERRIDE_BLOCK", arg |-> RedditCom]
    /\ nuclearUnexpired(World)
    /\ \E r \in rules : r.urlFilter = Str_bars \o RedditCom
    /\ alarms.override = {}
    /\ todayStats.totalAttempts = 0
    /\ response.kind = "error"

\* C9: when the stored nuclear state has active = true and endsAt <= now, the
\* next isNuclearActive call (here: the one of GET_STATE) answers false and the
\* store holds active = false afterwards; when active = true and now < endsAt
\* it answers true and the stored settings are not written.
C9_LazyExpiry ==
    [][(/\ lastOp'.type = "GET_STATE"
        /\ ~settings.nuclearMode.isNull
        /\ settings.nuclearMode.active)
       => IF settings.nuclearMode.endsAt <= now
          THEN /\ ~response'.nuclearActive
               /\ ~settings'.nuclearMode.isNull
               /\ ~settings'.nuclearMode.active
          ELSE /\ response'.nuclearActive
               /\ settings' = settings]_vars

\* C9: GET_STATE found the lock stored active past its expiry, answered
\* "not active" and left active = false in the store.
C9_Witness ==
    /\ lastOp.type = "GET_STATE"
    /\ response.nuclearMode.active
    /\ response.nuclearMode.endsAt <= now
    /\ ~response.nuclearActive
    /\ ~settings.nuclearMode.isNull
    /\ ~settings.nuclearMode.active

\* C10: a focus session completing at cycle c moves to a break with cycle
\* c + 1 when c < 4 and to a long break with cycle 1 when c >= 4; so, from
\* cycle 1 and with no stop, a long break follows exactly the completed focus
\* sessions number 4, 8, ...
C10_LongBreakEveryFourth ==
    /\ [][(/\ lastOp'.type = "alarm:focus-tick"
            /\ timerState.status = "focus"
            /\ timerState'.status # "focus")
           => IF timerState.cycle < 4
              THEN /\ timerState'.status = "break"
                   /\ timerState'.cycle = timerState.cycle + 1
              ELSE /\ timerState'.status = "longbreak"
                   /\ timerState'.cycle = 1]_vars
    /\ [](/\ (timerState.status = "longbreak"
                 => (sessionCount > 0 /\ sessionCount % 4 = 0))
           /\ (timerState.status = "break" => sessionCount % 4 # 0))

\* C10: the fourth focus session in a row has completed into a long break.
C10_Witness ==
    /\ lastOp.type = "alarm:focus-tick"
    /\ timerState.status = "longbreak"
    /\ timerState.cycle = 1
    /\ sessionCount = 4

\* C11: a tick completes the timer exactly when the elapsed seconds have
\* reached the duration, the second elapsed = duration included (a 25-minute
\* session ticked at 1500 s).  A completed focus session before the fourth of
\* its cycle moves to a break of 300 s with the cycle incremented, and the rule
\* table is emptied if neither the schedule nor the nuclear lock is active and
\* kept otherwise.  A tick with time remaining stores the recomputed remaining
\* and leaves status, duration, startedAt, cycle and the rule table unchanged.
C11_TickCompletion ==
    [][(lastOp'.type = "alarm:focus-tick" /\ ~noTimer(World))
       => IF elapsedSeconds(World, timerState) >= timerState.duration
          THEN /\ timerState'.status # timerState.status
               /\ (timerState.status = "focus")
                  => /\ timerState'.status \in {"break", "longbreak"}
                     /\ (timerState.cycle < cyclesToLongBreak)
                        => timerState' =
                             [status |-> "break", remaining |-> 300,
                              duration |-> 300, startedAt |-> now,
                              cycle |-> timerState.cycle + 1]
                     /\ rules' = IF ~nuclearUnexpired(World)
                                    /\ ~isScheduleActive(World)
                                 THEN {} ELSE rules
          ELSE /\ timerState' =
                    [timerState EXCEPT !.remaining =
                        timerState.duration
                        - elapsedSeconds(World, timerState)]
               /\ rules' = rules]_vars

\* a session started at the epoch was ticked at 1500 s exactly: the break
\* starts there, and the rules of the session are gone
C11_Witness ==
    /\ lastOp.type = "alarm:focus-tick"
    /\ timerState.status = "break"
    /\ timerState.startedAt = 1500 * 1000
    /\ timerState.duration = 300
    /\ timerState.cycle = 2
    /\ blocklist # << >>
    /\ rules = {}
    /\ sessionCount = 1

\* C12: a tick that finds a break or long break with no time left moves the
\* timer to idle with duration 0, remaining 0, startedAt cleared and the cycle
\* of the finished break; the session flag is turned off unless the schedule
\* or the nuclear lock is still active, and then it is left as it was.
C12_BreakCompletion ==
    [][(/\ lastOp'.type = "alarm:focus-tick"
        /\ timerState.status \in {"break", "longbreak"}
        /\ elapsedSeconds(World, timerState) >= timerState.duration)
       => /\ timerState' =
               [status |-> "idle", remaining |-> 0, duration |-> 0,
                startedAt |-> NULL, cycle |-> timerState.cycle]
          /\ focusActive' = IF isScheduleActive(World) \/ nuclearUnexpired(World)
                            THEN focusActive ELSE FALSE]_vars

\* the break after a completed session has ended under the nuclear lock, and
\* the session flag is still on
C12_Witness ==
    /\ lastOp.type = "alarm:focus-tick"
    /\ timerState.status = "idle"
    /\ timerState.cycle = 2
    /\ sessionCount = 1
    /\ nuclearUnexpired(World)
    /\ focusActive

\* C13: a stop request that finds no unexpired nuclear lock succeeds.  If a
\* focus session is running it appends exactly one record to the history,
\* with completed = false and focusMinutes the whole minutes of the elapsed
\* seconds (a stop a second before a minute boundary does not count that
\* minute), and adds nothing to the day's focus minutes or completed sessions;
\* otherwise it records nothing.  The timer state is cleared, the tick alarm
\* is cancelled, and the rule table is emptied unless the schedule is active,
\* in which case the rules are left in place.
C13_StopRecords ==
    [][(lastOp'.type = "STOP_SESSION" /\ ~nuclearUnexpired(World))
       => /\ response' = Success
          /\ IF timerState.status = "focus"
             THEN LET n == Len(sessionHistory')
                      secs == (now - timerState.startedAt) \div 1000
                  IN /\ n = Len(sessionHistory) + 1
                     /\ SubSeq(sessionHistory', 1, n - 1) = sessionHistory
                     /\ sessionHistory'[n].completed = FALSE
                     /\ sessionHistory'[n].focusMinutes * 60 <= secs
                     /\ secs < (sessionHistory'[n].focusMinutes + 1) * 60
                     /\ todayStats'.focusMinutes = todayStats.focusMinutes
                     /\ todayStats'.sessionsCompleted
                           = todayStats.sessionsCompleted
             ELSE sessionHistory' = sessionHistory
          /\ timerState' = NullTimer
          /\ alarms'.tick = FALSE
          /\ rules' = IF isScheduleActive(World) THEN rules ELSE {}]_vars

\* a session started at the epoch was stopped after 59 s and recorded with
\* no focus minute; its rules are gone
C13_Witness ==
    /\ lastOp.type = "STOP_SESSION"
    /\ response = Success
    /\ Len(sessionHistory) = 1
    /\ sessionHistory[1].date = 59 * 1000
    /\ sessionHistory[1].focusMinutes = 0
    /\ ~sessionHistory[1].completed
    /\ timerState = NullTimer
    /\ blocklist # << >>
    /\ rules = {}

\* C14: a browser start that finds a focus session whose duration has already
\* elapsed completes it: the session is recorded as completed and the timer
\* moves to a break or long break, whatever the nuclear lock and the schedule
\* are at that moment.
C14_RestartCompletesFocus ==
    [][(/\ lastOp'.type = "startup"
        /\ timerState.status = "focus"
        /\ elapsedSeconds(World, timerState) >= timerState.duration)
       => /\ timerState'.status \in {"break", "longbreak"}
          /\ Len(sessionHistory') = Len(sessionHistory) + 1
          /\ sessionHistory'[Len(sessionHistory')].completed]_vars

\* C15: a browser start that finds the nuclear lock active and unexpired
\* installs exactly the rules of the effective domain set and arms the expiry
\* alarm for endsAt (a delay of endsAt - now); the stored lock, endsAt
\* included, is unchanged.
C15_RestartKeepsLock ==
    [][(lastOp'.type = "startup" /\ nuclearUnexpired(World))
       => /\ rules' = {[id |-> i,
                        urlFilter |-> Str_bars
                            \o cleanDomain(getFullBlocklist(World)[i])] :
                          i \in 1..Len(getFullBlocklist(World))}
          /\ alarms'.nuclearEnd = settings.nuclearMode.endsAt
          /\ settings'.nuclearMode = settings.nuclearMode]_vars

\* the browser started a minute before the end of the lock, and the rules
\* are installed
C15_Witness ==
    /\ lastOp.type = "startup"
    /\ nuclearUnexpired(World)
    /\ settings.nuclearMode.endsAt - now = MsPerMinute
    /\ now > 0
    /\ alarms.nuclearEnd = settings.nuclearMode.endsAt
    /\ rules # {}

\* C16: after the nuclear-end alarm has been handled the stored lock is
\* inactive; if a focus session is running the rule table holds exactly the
\* rules of the effective domain set, and if no focus session is running and
\* the schedule is not active the rule table is empty.
C16_NuclearEndRederives ==
    [][(lastOp'.type = "alarm:nuclear-end")
       => /\ ~settings'.nuclearMode.active
          /\ (timerState'.status = "focus")
             => rules' = {[id |-> i,
                           urlFilter |-> Str_bars
                               \o cleanDomain(getFullBlocklist(World)[i])] :
                             i \in 1..Len(getFullBlocklist(World))}
          /\ (timerState'.status # "focus" /\ ~isScheduleActive(World))
             => rules' = {}]_vars

\* C17: an override that is granted removes the rule of its domain and arms
\* an alarm five minutes ahead.  When that alarm fires and the focus session,
\* the schedule or the nuclear lock is on, the rule table is replaced by the
\* rules of the whole effective domain set, the overridden domain included;
\* when none is on, the rule table is left as it was.
C17_OverrideRearm ==
    /\ [][(lastOp'.type = "OVERRIDE_BLOCK" /\ response' = Success)
          => /\ \A r \in rules' :
                   r.urlFilter # Str_bars \o cleanDomain(lastOp'.arg)
             /\ [domain |-> cleanDomain(lastOp'.arg),
                 when |-> now + 5 * MsPerMinute] \in alarms'.override]_vars
    /\ [][(lastOp'.type = "alarm:override")
          => IF nuclearUnexpired(World) \/ isScheduleActive(World)
                \/ inFocus(World)
             THEN /\ rules' = {[id |-> i,
                                urlFilter |-> Str_bars
                                    \o cleanDomain(getFullBlocklist(World)[i])] :
                                  i \in 1..Len(getFullBlocklist(World))}
                  /\ (lastOp'.arg \in Range(getFullBlocklist(World)))
                     => \E r \in rules' :
                           r.urlFilter = Str_bars \o lastOp'.arg
             ELSE rules' = rules]_vars

\* the alarm of an override of x.com has fired during a focus session, and
\* x.com has its rule again
C17_Witness ==
    /\ lastOp = [type |-> "alarm:override", arg |-> XCom]
    /\ inFocus(World)
    /\ \E r \in rules : r.urlFilter = Str_bars \o XCom
    /\ todayStats.totalAttempts = 1
    /\ alarms.override = {}

\* C18: while an override is waiting for its alarm, its domain has no rule
\* in the rule table and a block decision asked for it is not blocked = true.
C18_OverrideWindow ==
    \A o \in alarms.override :
        (now < o.when)
        => /\ \A r \in rules : r.urlFilter # Str_bars \o o.domain
           /\ ~(/\ lastOp.type = "CHECK_BLOCKED"
                /\ cleanDomain(lastOp.arg) = o.domain
                /\ response.blocked)

\* C19: after updateBlockingRules(D) the rule table holds exactly one rule per
\* entry of D, numbered from 1, whatever it held before; syncing D a second
\* time changes nothing; syncing the empty list, or clearing, leaves the
\* table empty.
C19_SyncReplaces ==
    /\ (lastOp.type = "updateBlockingRules")
       => /\ rules = {[id |-> i,
                       urlFilter |-> Str_bars \o cleanDomain(lastOp.arg[i])] :
                         i \in 1..Len(lastOp.arg)}
          /\ Cardinality(rules) = Len(lastOp.arg)
          /\ (lastOp.arg = << >>) => rules = {}
    /\ (lastOp.type = "clearBlockingRules") => rules = {}
    /\ \A domains \in SyncLists :
          updateBlockingRules(updateBlockingRules(World, domains), domains).rules
            = updateBlockingRules(World, domains).rules

\* a one-entry list was synced after an override had taken a rule out of the
\* table: one rule, numbered 1, is installed
C19_Witness ==
    /\ lastOp = [type |-> "updateBlockingRules", arg |-> <<RedditCom>>]
    /\ rules = {[id |-> 1, urlFilter |-> Str_bars \o RedditCom]}
    /\ todayStats.totalAttempts = 1

\* C20: the stored blocklist is always a duplicate-free list of at most
\* MAX_BLOCKLIST_SIZE canonical domains: no upper-case letter, no scheme, no
\* leading www., no path and no port.  The request [a.com, a.com, www.a.com]
\* stores exactly [a.com].  A request with more than MAX_BLOCKLIST_SIZE
\* entries, or with an entry that is not a domain, is answered with an error
\* and leaves the stored blocklist and the rule table unchanged.
C20_BlocklistCanonical ==
    /\ [](/\ Len(blocklist) <= MAX_BLOCKLIST_SIZE
          /\ \A i, j \in 1..Len(blocklist) :
                (blocklist[i] = blocklist[j]) => i = j
          /\ \A i \in 1..Len(blocklist) :
                /\ \A k \in 1..Len(blocklist[i]) :
                      blocklist[i][k] \notin Range(UpperChars) \cup {"/", ":"}
                /\ ~StartsWith(blocklist[i], Str_www))
    /\ [][(/\ lastOp'.type = "UPDATE_BLOCKLIST"
           /\ lastOp'.arg = <<ACom, ACom, WwwACom>>)
          => blocklist' = <<ACom>>]_vars
    /\ [][(/\ lastOp'.type = "UPDATE_BLOCKLIST"
           /\ \/ Len(lastOp'.arg) > MAX_BLOCKLIST_SIZE
              \/ \E i \in 1..Len(lastOp'.arg) :
                    sanitizeDomain(lastOp'.arg[i]) = << >>)
          => /\ response'.kind = "error"
             /\ blocklist' = blocklist
             /\ rules' = rules]_vars

\* C21: sanitizeDomain applied to a string it accepts returns a string that
\* it maps to itself, strings with a scheme and repeated www. prefixes
\* included; it rejects the empty string, a string without a dot and a string
\* whose host part is longer than 253 characters.
C21_SanitizeIdempotent ==
    (lastOp.type = "UPDATE_BLOCKLIST" /\ Len(lastOp.arg) = 1)
    => LET x == lastOp.arg[1]
           y == sanitizeDomain(x)
       IN /\ (y # << >>) => sanitizeDomain(y) = y
          /\ (x = << >> \/ IndexOf(x, ".") = 0 \/ Len(sanitizeCleaned(x)) > 253)
             => y = << >>
          /\ response = IF y = << >> THEN Failure("Invalid domain") ELSE Success
          /\ (y # << >>) => blocklist = <<y>>

\* C22: isScheduleActive() is true exactly when the schedule is present and
\* enabled, the weekday is one of its days, and the minute of the day lies
\* between startTime and endTime, both included; so a schedule whose endTime
\* is before its startTime, a disabled one and an absent one are never
\* active.  A schedule check with no timer and no lock turns the session
\* flag on or off accordingly.
C22_ScheduleActive ==
    LET sch == settings.schedule
        digit(c) == IndexOf(DigitChars, c) - 1
        minutes(t) == (digit(t[1]) * 10 + digit(t[2])) * 60
                      + digit(t[4]) * 10 + digit(t[5])
        nowMinutes == getHours(now) * 60 + getMinutes(now)
        inWindow == /\ ~sch.isNull
                    /\ sch.enabled
                    /\ getDay(now) \in sch.days
                    /\ minutes(sch.startTime) <= nowMinutes
                    /\ nowMinutes <= minutes(sch.endTime)
    IN /\ isScheduleActive(World) <=> inWindow
       /\ (~sch.isNull /\ minutes(sch.endTime) < minutes(sch.startTime))
          => ~isScheduleActive(World)
       /\ (/\ lastOp.type = "alarm:schedule-check"
           /\ timerState.status = "null"
           /\ settings.nuclearMode.isNull)
          => focusActive = inWindow

\* at 09:01, the last minute of the window 09:00-09:01, a schedule check
\* has turned blocking on
C22_Witness ==
    /\ lastOp.type = "alarm:schedule-check"
    /\ settings.schedule = ScheduleOf(TRUE, {1}, Time_0900, Time_0901)
    /\ currentTime(now) = Time_0901
    /\ timerState.status = "null"
    /\ settings.nuclearMode.isNull
    /\ focusActive
    /\ rules # {}

\* C23: an update-schedule request stores the schedule it carries and
\* succeeds.  With no unexpired nuclear lock and the timer idle or absent,
\* the rule table is afterwards the rules of the effective domain set if the
\* new schedule is active at that moment, and empty if it is not or is
\* absent.  With a focus session running the rule table is left as it was.
C23_UpdateScheduleReevaluates ==
    [][(lastOp'.type = "UPDATE_SCHEDULE")
       => /\ settings'.schedule = lastOp'.arg
          /\ response' = Success
          /\ (~nuclearUnexpired(World) /\ noTimer(World))
             => rules' =
                  IF isScheduleActive(
                       [World EXCEPT !.settings.schedule = lastOp'.arg])
                  THEN {[id |-> i,
                         urlFilter |-> Str_bars
                             \o cleanDomain(getFullBlocklist(World)[i])] :
                           i \in 1..Len(getFullBlocklist(World))}
                  ELSE {}
          /\ inFocus(World) => rules' = rules]_vars

\* with the timer idle after a break, a schedule that is active was stored
\* and the rules were installed
C23_Witness ==
    /\ lastOp.type = "UPDATE_SCHEDULE"
    /\ timerState.status = "idle"
    /\ isScheduleActive(World)
    /\ ~nuclearUnexpired(World)
    /\ rules # {}

\* C24: a get-state or get-block-info request answered while the stored
\* status is focus, break or longbreak returns the stored timer with
\* remaining = max(0, duration - floor((now - startedAt) / 1000)), whatever
\* remaining the store holds; so 0 <= remaining <= duration in the answer.
C24_ReadRecomputesRemaining ==
    (/\ lastOp.type \in {"GET_STATE", "GET_BLOCK_INFO"}
     /\ timerState.status \in {"focus", "break", "longbreak"})
    => LET left == timerState.duration
                   - ((now - timerState.startedAt) \div 1000)
       IN /\ response.timerState.remaining = IF left > 0 THEN left ELSE 0
          /\ response.timerState.remaining >= 0
          /\ response.timerState.remaining <= timerState.duration
          /\ response.timerState.status = timerState.status
          /\ response.timerState.duration = timerState.duration
          /\ response.timerState.startedAt = timerState.startedAt
          /\ response.timerState.cycle = timerState.cycle

\* the block page asked 59 s into a one-minute session that no tick has
\* touched: the store says 60 s remain, the answer says 1 s
C24_Witness ==
    /\ lastOp.type = "GET_BLOCK_INFO"
    /\ timerState.status = "focus"
    /\ timerState.remaining = 60
    /\ response.timerState.remaining = 1

\* C25: a check-blocked request leaves the session, the settings (nuclear
\* lock and schedule), the block list, the statistics, the rule table and
\* the alarms exactly as they were, for every domain and every state.
C25_CheckBlockedPure ==
    [][(lastOp'.type = "CHECK_BLOCKED")
       => UNCHANGED <<timerState, settings, blocklist, activePrebuiltLists,
                      todayStats, sessionHistory, sessionCount, streak, rules,
                      alarms, focusActive>>]_vars

\* C25 (amended): a check-blocked request leaves all of these as they were,
\* except that for a listed domain a stored lock that is active and past its
\* end is rewritten as inactive; nothing else of the settings changes.
C25_CheckBlockedLazyExpiryOnly ==
    [][(lastOp'.type = "CHECK_BLOCKED")
       => /\ UNCHANGED <<timerState, blocklist, activePrebuiltLists,
                         todayStats, sessionHistory, sessionCount, streak,
                         rules, alarms, focusActive>>
          /\ \/ settings' = settings
             \/ /\ inBlocklist(World, lastOp'.arg)
                /\ ~settings.nuclearMode.isNull
                /\ settings.nuclearMode.active
                /\ now >= settings.nuclearMode.endsAt
                /\ settings' = [settings EXCEPT !.nuclearMode = NuclearOff]]_vars

\* a query for a listed domain found the lock past its end and wrote it off,
\* the lock's own alarm still pending
C25_Witness ==
    /\ lastOp.type = "CHECK_BLOCKED"
    /\ inBlocklist(World, lastOp.arg)
    /\ settings.nuclearMode = NuclearOff
    /\ alarms.nuclearEnd # NULL
    /\ now >= alarms.nuclearEnd

\* C26: a message that is invalid is answered with an error and changes
\* nothing: one that is not an object with a string type gets "Invalid
\* message format."; one of unknown type gets an error; a start-session
\* duration that is given and is not a number from 1 to 480 minutes, and a
\* nuclear duration that is not a number from 1 to 1440 minutes, get an
\* error; a prebuilt list id that is not one of the allowed ids gets an error.
C26_InvalidMessageRejected ==
    [][(lastOp'.type = "onMessage")
       => LET message == lastOp'.arg
              wellFormed == message.isObject /\ message.hasType
              outside(max) ==
                  \/ message.duration.kind = "nan"
                  \/ /\ message.duration.kind = "number"
                     /\ \/ message.duration.halves < 2
                        \/ message.duration.halves > 2 * max
              invalid ==
                  \/ ~wellFormed
                  \/ message.type \notin
                       {"START_SESSION", "STOP_SESSION", "GET_STATE",
                        "UPDATE_BLOCKLIST", "TOGGLE_PREBUILT_LIST",
                        "ACTIVATE_NUCLEAR", "CHECK_BLOCKED", "GET_BLOCK_INFO",
                        "RECORD_DISTRACTION", "START_BREAK", "SKIP_BREAK",
                        "OVERRIDE_BLOCK", "UPDATE_SCHEDULE"}
                  \/ message.type = "START_SESSION" /\ outside(480)
                  \/ /\ message.type = "ACTIVATE_NUCLEAR"
                     /\ (outside(1440) \/ message.duration.kind = "absent")
                  \/ /\ message.type = "TOGGLE_PREBUILT_LIST"
                     /\ message.listId \notin ALLOWED_PREBUILT_LIST_IDS
          IN /\ (~wellFormed)
                => response' = Failure("Invalid message format.")
             /\ invalid
                => /\ response'.kind = "error"
                   /\ UNCHANGED <<timerState, settings, blocklist,
                                  activePrebuiltLists, todayStats,
                                  sessionHistory, sessionCount, streak, rules,
                                  alarms, focusActive>>]_vars

\* C27: in every state between handlers in which no override window is
\* open, a domain for which check-blocked would answer blocked = true has its
\* rule in the rule table.
C27_DecisionImpliesRule ==
    (alarms.override = {})
    => \A d \in QueryDomains :
         handleCheckBlockedResult(World, d).blocked
         => \E r \in rules : r.urlFilter = Str_bars \o cleanDomain(d)

\* C28: when no handler of the service worker is suspended, a nuclear lock
\* that was activated and whose end has not come (its alarm is still to
\* fire) is in the store, active, with the end it was given: no schedule
\* update, settings save or lazy-expiry write that ran in between erased it.
C28_NuclearNotErased ==
    (/\ Running = {}
     /\ alarms.nuclearEnd # NULL
     /\ now < alarms.nuclearEnd)
    => /\ nuclearUnexpired(World)
       /\ settings.nuclearMode.endsAt = alarms.nuclearEnd

\* C29: the lifetime session counter, today's sessionsCompleted and the
\* session history change only when the stored focus session is completed
\* (the stored status goes from focus to break or longbreak), and then each
\* grows by exactly one: no session is completed twice, whichever handlers
\* see its end.
C29_CompletedOnce ==
    [][(\/ sessionCount' # sessionCount
        \/ sessionHistory' # sessionHistory
        \/ todayStats'.sessionsCompleted # todayStats.sessionsCompleted)
       => /\ timerState.status = "focus"
          /\ timerState'.status \in {"break", "longbreak"}
          /\ sessionCount' = sessionCount + 1
          /\ Len(sessionHistory') = Len(sessionHistory) + 1
          /\ todayStats'.sessionsCompleted
               = todayStats.sessionsCompleted + 1]_vars

C31_BlockingEndsWithSources ==
    /\ (~nuclearUnexpired(World) /\ ~inFocus(World) /\ ~isScheduleActive(World))
       ~> (\/ rules = {}
           \/ nuclearUnexpired(World) \/ inFocus(World)
           \/ isScheduleActive(World))
    /\ [][(/\ rules = {}
           /\ ~nuclearUnexpired(World) /\ ~inFocus(World)
           /\ ~isScheduleActive(World)
           /\ (~nuclearUnexpired(World) /\ ~inFocus(World)
                /\ ~isScheduleActive(World))')
          => rules' = {}]_vars

\* a schedule check left the table empty with a list stored, the timer idle
\* and the lock written off
C31_Witness ==
    /\ lastOp.type = "alarm:schedule-check"
    /\ rules = {}
    /\ blocklist # << >>
    /\ timerState.status = "idle"
    /\ settings.nuclearMode = NuclearOff

\* C32: when the browser starts with the lock stored as active and already
\* expired (endsAt <= now), then after restoreState the stored lock is
\* inactive and the rule table is empty unless a focus session runs or the
\* schedule is active.
C32_ExpiredLockRecovered ==
    [][(/\ lastOp'.type = "startup"
        /\ ~settings.nuclearMode.isNull
        /\ settings.nuclearMode.active
        /\ settings.nuclearMode.endsAt <= now)
       => /\ ~settings'.nuclearMode.active
          /\ (\/ rules' = {}
              \/ inFocus(World)'
              \/ isScheduleActive(World)')]_vars

\* The popup and the block page read the state while a lock runs out.
NextObserve ==
    \/ Setup /\ UpdateBlocklist(<<RedditCom>>)
    \/ Setup /\ MayStart /\ StartSession(1)
    \/ Setup /\ \E m \in NuclearMinutes : ActivateNuclear(m)
    \/ GetState
    \/ GetBlockInfo(RedditCom)
    \/ AlarmTick
    \/ AlarmNuclearEnd
    \/ \E dt \in NearMinuteSteps : MayAdvance(dt) /\ Advance(dt)

SpecObserve == Init /\ [][NextObserve]_vars

\* C33: every response of getFullState and of getBlockInfo, produced at the
\* time now, carries settings whose nuclearMode is not active with
\* endsAt <= now, and the nuclearActive flag of getFullState equals the
\* active flag of the settings it returns.
C33_NoStaleLockObserved ==
    response.kind \in {"state", "blockInfo"}
    => /\ ~(response.nuclearMode.active /\ response.nuclearMode.endsAt <= now)
       /\ (response.kind = "state"
            => response.nuclearActive = response.nuclearMode.active)

\* The manual list and a prebuilt group name the same site; sessions start and
\* stop around the changes.
NextEffective ==
    \/ MayStart /\ StartSession(1)
    \/ StopSession
    \/ \E sites \in {<<XCom>>, <<WwwWwwRedditCom>>, <<WwwWwwRedditCom, RedditCom>>} :
          UpdateBlocklist(sites)
    \/ \E id \in PrebuiltListIds : TogglePrebuiltList(id)
    \/ AlarmTick
    \/ \E dt \in TimeSteps : MayAdvance(dt) /\ Advance(dt)

SpecEffective == Init /\ [][NextEffective]_vars

\* C34: no two installed rules have the same match filter: each domain of
\* the effective list has exactly one rule, whatever forms of it the manual
\* list and the enabled prebuilt groups hold.
C34_OneRulePerDomain ==
    \A r1 \in rules : \A r2 \in rules :
        r1.urlFilter = r2.urlFilter => r1 = r2

\* The lists change while the engine is idle, in a session, in a break, under
\* a schedule and after a lock.
NextResync ==
    \/ MayStart /\ StartSession(1)
    \/ StartBreak(FALSE)
    \/ \E sites \in {<< >>, <<RedditCom>>} : UpdateBlocklist(sites)
    \/ \E id \in PrebuiltListIds : TogglePrebuiltList(id)
    \/ \E sch \in Schedules : UpdateSchedule(sch)
    \/ Setup /\ ActivateNuclear(1)
    \/ AlarmTick
    \/ AlarmScheduleCheck
    \/ AlarmNuclearEnd
    \/ \E dt \in TimeSteps : MayAdvance(dt) /\ Advance(dt)

SpecResync == Init /\ [][NextResync]_vars

\* C35: a successful UPDATE_BLOCKLIST or TOGGLE_PREBUILT_LIST leaves the rule
\* table holding exactly the filters of the new effective list when a focus
\* session runs or the schedule is active at that moment, and leaves the rule
\* table as it was otherwise.
C35_ListChangeResyncs ==
    [][(/\ lastOp'.type \in {"UPDATE_BLOCKLIST", "TOGGLE_PREBUILT_LIST"}
        /\ response'.kind = "success")
       => IF inFocus(World) \/ isScheduleActive(World)
          THEN {r.urlFilter : r \in rules'}
                 = {Str_bars \o cleanDomain(d) : d \in Range(getFullBlocklist(World)')}
          ELSE rules' = rules]_vars

\* a prebuilt group was switched on outside a session while the schedule was
\* active, and its sites are in the rule table
C35_Witness ==
    /\ lastOp.type = "TOGGLE_PREBUILT_LIST"
    /\ response.kind = "success"
    /\ ~inFocus(World)
    /\ isScheduleActive(World)
    /\ activePrebuiltLists # << >>
    /\ rules # {}

\* the sum of the per-domain attempt counts
SumAttempts(sitesBlocked) ==
    Cardinality(UNION {{<<d, k>> : k \in 1..sitesBlocked[d]} :
                          d \in DOMAIN sitesBlocked})

\* Block pages of two tabs record their attempts, and blocks are overridden,
\* while the handlers of the service worker interleave at their storage calls.
NextAttempts ==
    \/ UpdateBlocklist(<<RedditCom, XCom>>)
    \/ MayStart /\ StartSession(1)
    \/ \E i \in RecordInstances : \E d \in {RedditCom, XCom} :
          MayAttempt /\ RecordRead(i, d)
    \/ RecordWrite
    \/ \E d \in {RedditCom, XCom} : MayAttempt /\ OverrideBlock(d)
    \/ AlarmTick
    \/ \E dt \in TimeSteps : MayAdvance(dt) /\ Advance(dt)

SpecAttempts == Init /\ [][NextAttempts]_vars

\* C36: on one day every finished RECORD_DISTRACTION and every successful
\* OVERRIDE_BLOCK raises todayStats.totalAttempts by exactly one, so that N of
\* them raise it by N, and totalAttempts always equals the sum of the
\* per-domain counts, under every interleaving of the storage reads and
\* writes.
C36_NoAttemptLost ==
    /\ [](todayStats.totalAttempts = SumAttempts(todayStats.sitesBlocked))
    /\ [][(/\ lastOp'.type \in {"RECORD_DISTRACTION", "OVERRIDE_BLOCK"}
           /\ response'.kind = "success"
           /\ todayStats.date = isoDate(now))
          => todayStats'.totalAttempts = todayStats.totalAttempts + 1]_vars

\* Sessions, locks and overrides while calls of the rule-table API and of the
\* alarm API fail or succeed.
NextFailures ==
    \/ Setup /\ UpdateBlocklist(<<RedditCom>>)
    \/ Setup /\ MayStart
          /\ \E fails \in ApiCalls \cup {"none"} : StartSessionWhen(1, fails)
    \/ Setup /\ \E fails \in ApiCalls \cup {"none"} : ActivateNuclearWhen(1, fails)
    \/ \E fails \in ApiCalls \cup {"none"} :
          MayAttempt /\ OverrideBlockWhen(RedditCom, fails)
    \/ AlarmTick
    \/ AlarmNuclearEnd
    \/ \E dt \in TimeSteps : MayAdvance(dt) /\ Advance(dt)

SpecFailures == Init /\ [][NextFailures]_vars

\* C37: a START_SESSION, ACTIVATE_NUCLEAR or OVERRIDE_BLOCK (outside a lock)
\* during which a call of the rule-table API or of the alarm API fails still
\* makes its state transition (the timer in focus, the lock stored active, the
\* attempt counted) and answers { success: true }.
C37_ApiFailureSwallowed ==
    [][(/\ lastOp'.type \in {"START_SESSION", "ACTIVATE_NUCLEAR", "OVERRIDE_BLOCK"}
        /\ lastOp'.arg.fails \in ApiCalls
        /\ (lastOp'.type = "OVERRIDE_BLOCK" => ~isNuclearActive(World)))
       => /\ response'.kind = "success"
          /\ (lastOp'.type = "START_SESSION" => inFocus(World)')
          /\ (lastOp'.type = "ACTIVATE_NUCLEAR" => settings'.nuclearMode.active)
          /\ (lastOp'.type = "OVERRIDE_BLOCK"
                => todayStats'.totalAttempts = todayStats.totalAttempts + 1)]_vars

\* One-minute sessions are started, completed by the tick or at a restart of
\* the browser, stopped, and left for a break, up to MaxCycleSessions recorded
\* sessions and as many minutes.
NextRounds ==
    \/ ~inFocus(World) /\ MayStartCycle /\ StartSession(1)
    \/ timerState.status \in {"break", "longbreak"} /\ MayStartCycle /\ SkipBreak(1)
    \/ inFocus(World) /\ (\E isLong \in BOOLEAN : StartBreak(isLong))
    \/ inFocus(World) /\ StopSession
    \/ AlarmTick
    \/ OnStartup
    \/ \E dt \in TimeSteps :
          /\ TimerRunning
          /\ now + dt <= MaxCycleSessions * MsPerMinute
          /\ Advance(dt)

SpecRounds == Init /\ [][NextRounds]_vars

====
